---- MODULE Spec2Model ----
(***************************************************************************)
(* State-machine model of the risk gate (RiskManager), the trade velocity   *)
(* admission controller (VolumeStrategyOptimizer), the fee-aware close     *)
(* strategy, the request layer (safeFetch), the trade tracker, the PnL     *)
(* functions and the terminal apps that start and stop the engines.        *)
(*                                                                         *)
(* Money amounts are integers (one unit = the smallest amount used by a    *)
(* scenario); times are milliseconds as returned by Date.now().            *)
(***************************************************************************)
EXTENDS Integers, Sequences, FiniteSets, TLC

VARIABLES
    now,            \* the wall clock, Date.now()
    limits,         \* RiskManager.limits
    state,          \* RiskManager.state (RiskState)
    tradeHistory,   \* RiskManager.tradeHistory
    rmRet,          \* the last RiskManager call and what it returned
    cooldownOpened, \* history variable: the last recordTrade that left the
                    \* loss streak at its limit, and whether resetDailyStats
                    \* was called after it
    config,         \* VolumeStrategyOptimizer.config
    volHistory,     \* VolumeStrategyOptimizer.tradeHistory
    volLastTradeTime, \* VolumeStrategyOptimizer.lastTradeTime
    voRet,          \* the last VolumeStrategyOptimizer call and what it returned
    closeConfig,    \* CloseStrategyManager.config
    orderStartTime, \* CloseStrategyManager.orderStartTime
    isActive,       \* CloseStrategyManager.isActive
    csRet,          \* the last CloseStrategyManager call and what it returned
    timeoutReported, \* history variable: a computation has reported a timeout
                    \* since the last startCloseStrategy or stopCloseStrategy
    sf,             \* one safeFetch call: its locals and its position
    trades,         \* TradeTracker.trades
    ttRet,          \* the last TradeTracker or fee schedule call and its result
    pnlRet,         \* the last PnL function call and its result
    app             \* TrendApp / OffsetMakerApp: the component and its engines

riskVars == <<limits, state, tradeHistory, rmRet, cooldownOpened>>

volVars == <<config, volHistory, volLastTradeTime, voRet>>

closeVars == <<closeConfig, orderStartTime, isActive, csRet, timeoutReported>>

fetchVars == <<sf>>

trackerVars == <<trades, ttRet>>

pnlVars == <<pnlRet>>

appVars == <<app>>

\* the components added after the request layer
laterVars == <<trackerVars, pnlVars, appVars>>

vars == <<now, riskVars, volVars, closeVars, fetchVars, laterVars>>

(***************************************************************************)
(* Bounds and input sets                                                   *)
(***************************************************************************)
MaxTrades == 3

\* clock advances allowed to the risk manager
MaxTicks == 2

InitialNows == {100000}

ClockSteps == {10000}

PnlValues == {-2, -1, 0, 1}

IsMakerValues == {FALSE}

ProposedSizes == {1, 2}

MaxVolTrades == 3

\* clock advances allowed to the volume optimizer
VolMaxTicks == 7

\* the window of the per-minute volume limit, in ms
VolumeWindow == 60000

\* Math.max(0.001, ...) in thousandths
MinSuggestedVolume == 1

ProposedVolumes == {40000, 60000, 100000}

VolPnlValues == {1}

HoldTimes == {1000}

VolIsMakerValues == {TRUE}

\* pnl arguments of shouldQuickClose, in thousandths like the volumes
QuickPnlValues == -3..3

QuickHoldTimes == {1000, 30000}

ConfigSet ==
    { [maxVolumePerMinute |-> 100000, minTradeInterval |-> 10000,
       maxPositionHoldTime |-> 30000, quickCloseThreshold |-> 1,
       maxDrawdownPerTrade |-> 2,
       volumeStats |-> [totalVolume |-> 0, tradesPerMinute |-> 0,
                        avgTradeSize |-> 0, volumeEfficiency |-> 0]],
      [maxVolumePerMinute |-> 100000, minTradeInterval |-> 20000,
       maxPositionHoldTime |-> 30000, quickCloseThreshold |-> 3,
       maxDrawdownPerTrade |-> 2,
       volumeStats |-> [totalVolume |-> 0, tradesPerMinute |-> 0,
                        avgTradeSize |-> 0, volumeEfficiency |-> 0]] }

\* getSuggestedTradeSize: sizes are counted in units of 0.0001, the risk
\* multiplier in 1/MultiplierScale, and the suggested size in
\* 1/MultiplierScale of a size unit.
MultiplierScale == 1000

\* Math.max(0.0001, ...)
MinSuggestedSize == 1

BaseSizes == {5, 100}

\* realized pnl of the trades recorded between queries
QueryPnlValues == {-2, 1}

\* milliseconds one safeFetch call is followed for
SfMaxClock == 12

\* Math.random() * base is counted in 1/JitterScale of a millisecond
JitterScale == 2

Statuses == {200, 404, 503}

SfPolicies ==
    { [maxRetries |-> n, baseDelayMs |-> 2, maxDelayMs |-> 5,
       retryOnStatuses |-> {503}] : n \in {0, 1, 3} }

\* timeout.timeoutMs; 0 is falsy, no timeout configured
SfTimeouts == {0, 4}

\* records the trade tracker is followed for
MaxTrackerTrades == 2

\* clock advances allowed to the trade tracker
TrackerMaxTicks == 1

\* ASTER_FEE_RATES.STOP_MARKET = 0.00035
STOP_MARKET == 7

\* ASTER_FEE_RATES.TRAILING_STOP = 0.00035
TRAILING_STOP == 7

OrderTypes == {"LIMIT", "MARKET", "STOP_MARKET", "TRAILING_STOP_MARKET", "LIQUIDATION"}

Notionals == 0..9

\* addTrade arguments.  Fees are counted in 1/RateScale of the quote unit.
NewTrades ==
    { [symbol |-> "BTCUSDT", side |-> "BUY", price |-> 2, amount |-> 2,
       isMaker |-> m, orderType |-> t, feeAsset |-> "BNB", orderId |-> 7]
      : m \in {TRUE}, t \in {"LIMIT", "MARKET"} }

\* Order update events.  A string field is <<>> when it is the empty string
\* and <<n>> when it spells the number n; an optional field is <<>> when it
\* is undefined and <<v>> when it is v.  A commission is spelled in
\* 1/RateScale of the quote unit.
OrderUpdates ==
    { [orderId |-> 1, symbol |-> "BTCUSDT", side |-> "SELL", price |-> <<4>>,
       avgPrice |-> <<2>>, executedQty |-> <<2>>, commission |-> <<8>>,
       commissionAsset |-> <<"BNB">>, isMaker |-> <<>>, type |-> <<"LIMIT">>],
      [orderId |-> 2, symbol |-> "BTCUSDT", side |-> "SELL", price |-> <<4>>,
       avgPrice |-> <<2>>, executedQty |-> <<2>>, commission |-> <<0>>,
       commissionAsset |-> <<>>, isMaker |-> <<>>, type |-> <<"LIMIT">>],
      [orderId |-> 3, symbol |-> "BTCUSDT", side |-> "BUY", price |-> <<4>>,
       avgPrice |-> <<2>>, executedQty |-> <<2>>, commission |-> <<-3>>,
       commissionAsset |-> <<>>, isMaker |-> <<>>, type |-> <<>>],
      [orderId |-> 4, symbol |-> "BTCUSDT", side |-> "BUY", price |-> <<4>>,
       avgPrice |-> <<2>>, executedQty |-> <<0>>, commission |-> <<8>>,
       commissionAsset |-> <<"BNB">>, isMaker |-> <<TRUE>>, type |-> <<"LIMIT">>],
      [orderId |-> 6, symbol |-> "BTCUSDT", side |-> "SELL", price |-> <<4>>,
       avgPrice |-> <<>>, executedQty |-> <<2>>, commission |-> <<>>,
       commissionAsset |-> <<>>, isMaker |-> <<TRUE>>, type |-> <<"STOP_MARKET">>] }

RecentCounts == {0, 1}

\* addTrade arguments the statistics are taken over
StatsTrades ==
    { [symbol |-> "BTCUSDT", side |-> sd, price |-> 2, amount |-> a,
       isMaker |-> m, orderType |-> t, feeAsset |-> "BNB", orderId |-> 7]
      : sd \in {"BUY", "SELL"}, a \in {0, 2}, m \in BOOLEAN,
        t \in {"LIMIT", "MARKET", "STOP_MARKET"} }

\* PositionSnapshot: positionAmt and entryPrice
Positions == { [positionAmt |-> a, entryPrice |-> 10] : a \in {-2, 0, 3} }

\* bestBid / bestAsk: a number, or one of the values that are not finite numbers
BookPrices ==
    { [kind |-> "number", v |-> 8], [kind |-> "number", v |-> 12],
      [kind |-> "undefined"], [kind |-> "null"], [kind |-> "NaN"],
      [kind |-> "Infinity"] }

TotalFees == {0, 3}

\* snapshot updates delivered to a mounted app
MaxUpdates == 2

\* parseIndexedEnv: ASTER_API_KEY_1 .. ASTER_API_KEY_10
IndexedSlots == 10

\* an unset or empty environment variable
Unset == ""

NoIndexed == [i \in 1..IndexedSlots |-> [key |-> Unset, secret |-> Unset]]

NoSingle == [key |-> Unset, secret |-> Unset]

\* The environment getAccounts() reads.  ASTER_ACCOUNTS is unset, text that is
\* not JSON, JSON that is no array, or an array of objects whose fields are
\* <<>> when absent and <<s>> when they hold the string s.
Environments ==
    { [json |-> [kind |-> "unset"], indexed |-> NoIndexed, single |-> NoSingle],
      [json |-> [kind |-> "invalid"],
       indexed |-> [NoIndexed EXCEPT ![3] = [key |-> "K3", secret |-> Unset]],
       single |-> [key |-> "K", secret |-> Unset]],
      [json |-> [kind |-> "array",
                 items |-> << [apiKey |-> <<"K1">>, key |-> <<>>,
                               apiSecret |-> <<>>, secret |-> <<>>] >>],
       indexed |-> [NoIndexed EXCEPT ![10] = [key |-> Unset, secret |-> "S10"]],
       single |-> [key |-> Unset, secret |-> "S"]],
      [json |-> [kind |-> "object"], indexed |-> NoIndexed,
       single |-> [key |-> "K", secret |-> "S"]],
      [json |-> [kind |-> "array",
                 items |-> << [apiKey |-> <<"K1">>, key |-> <<>>,
                               apiSecret |-> <<"S1">>, secret |-> <<>>],
                              [apiKey |-> <<>>, key |-> <<"K2">>,
                               apiSecret |-> <<>>, secret |-> <<"S2">>] >>],
       indexed |-> NoIndexed, single |-> NoSingle],
      [json |-> [kind |-> "array", items |-> <<>>],
       indexed |-> [NoIndexed EXCEPT ![1] = [key |-> "K1", secret |-> "S1"],
                                     ![2] = [key |-> "K2", secret |-> "S2"],
                                     ![10] = [key |-> "K10", secret |-> "S10"]],
       single |-> NoSingle] }

\* clock advances allowed to the close strategy manager
CloseMaxTicks == 4

\* Fee rates and profit margins are counted in units of 0.00005, prices in
\* units of 0.005 (20000 is 100.00, 20004 is 100.02), and every amount of
\* money the close strategy returns in 1/RateScale of a price unit, so that
\* the fee arithmetic is exact.
RateScale == 20000

\* ASTER_FEE_RATES.LIMIT_MAKER = 0.0001
LIMIT_MAKER == 2

\* ASTER_FEE_RATES.MARKET_TAKER = 0.00035
MARKET_TAKER == 7

EntryPrices == {20000}

Amounts == {1, 2}

Sides == {"BUY", "SELL"}

\* top of book: bid and ask
Books ==
    { [bid |-> 19979, ask |-> 19980], [bid |-> 19988, ask |-> 19989],
      [bid |-> 20004, ask |-> 20005], [bid |-> 20011, ask |-> 20012],
      [bid |-> 20020, ask |-> 20021] }

CloseConfigSet ==
    { [minProfitMargin |-> m, timeoutMs |-> 20000, fallbackToOriginal |-> f]
      : m \in {0, 2}, f \in BOOLEAN }

LimitsSet ==
    { [maxPositionSize |-> 1, maxDailyLoss |-> 2, maxConsecutiveLosses |-> 3,
       maxDrawdown |-> 4, cooldownPeriod |-> 20000, emergencyStopLoss |-> 5],
      [maxPositionSize |-> 1, maxDailyLoss |-> 3, maxConsecutiveLosses |-> 2,
       maxDrawdown |-> 2, cooldownPeriod |-> 10000, emergencyStopLoss |-> 0] }

(***************************************************************************)
(* Helpers                                                                 *)
(***************************************************************************)
Abs(x) == IF x < 0 THEN -x ELSE x

Min(S) == CHOOSE x \in S : \A y \in S : x <= y

Max(S) == CHOOSE x \in S : \A y \in S : x >= y

\* the latest clock value explored after at most n advances
LastNow(n) == Max(InitialNows) + n * Max(ClockSteps)

\* getTradesInRange arguments: the first instant alone, and all later ones
TimeRanges ==
    { <<Min(InitialNows), Min(InitialNows)>>,
      <<Min(InitialNows) + 1, LastNow(TrackerMaxTicks)>> }

NoReason == "none"

RmNoCall == [op |-> "none", arg |-> 0, allowed |-> FALSE, reason |-> NoReason]

RmVoid(name) == [op |-> name, arg |-> 0, allowed |-> FALSE, reason |-> NoReason]

NeverOpened == [at |-> -1, resetAfter |-> FALSE]

\* a value JavaScript leaves undefined
Undefined == -1

VoNoCall == [op |-> "none", arg |-> 0, allowed |-> FALSE, reason |-> NoReason,
             suggestedVolume |-> Undefined]

CsNoCall == [op |-> "none"]

SfNotCalled == [pc |-> "notCalled"]

RECURSIVE SumVolume(_)
SumVolume(hist) ==
    IF hist = <<>> THEN 0 ELSE Head(hist).volume + SumVolume(Tail(hist))

\* the close strategy manager as constructed and never used
CloseIdle ==
    /\ closeConfig = CHOOSE c \in CloseConfigSet : TRUE
    /\ orderStartTime = 0
    /\ isActive = FALSE
    /\ timeoutReported = FALSE
    /\ csRet = CsNoCall

\* no safeFetch call in progress
FetchIdle == sf = SfNotCalled

TtNoCall == [op |-> "none"]

TrackerIdle ==
    /\ trades = <<>>
    /\ ttRet = TtNoCall

PnlNoCall == [op |-> "none"]

PnlIdle == pnlRet = PnlNoCall

AppNotRendered == [phase |-> "notRendered"]

AppIdle == app = AppNotRendered

LaterIdle ==
    /\ TrackerIdle
    /\ PnlIdle
    /\ AppIdle

(***************************************************************************)
(* RiskManager                                                             *)
(***************************************************************************)
RiskInit ==
    /\ limits \in LimitsSet
    /\ state = [currentDrawdown |-> 0, consecutiveLosses |-> 0, dailyLoss |-> 0,
                lastTradeTime |-> 0, isInCooldown |-> FALSE,
                emergencyStopTriggered |-> FALSE]
    /\ tradeHistory = <<>>
    /\ rmRet = RmNoCall
    /\ cooldownOpened = NeverOpened

canOpenPosition_sizeFirst(st, lim, t, proposedSize) ==
    IF st.emergencyStopTriggered
      THEN [allowed |-> FALSE, reason |-> "emergency"]
    ELSE IF proposedSize > lim.maxPositionSize
      THEN [allowed |-> FALSE, reason |-> "size"]
    ELSE IF st.isInCooldown /\ (t - st.lastTradeTime < lim.cooldownPeriod)
      THEN [allowed |-> FALSE, reason |-> "cooldown"]
    ELSE IF st.consecutiveLosses >= lim.maxConsecutiveLosses
      THEN [allowed |-> FALSE, reason |-> "consecutive"]
    ELSE IF st.dailyLoss >= lim.maxDailyLoss
      THEN [allowed |-> FALSE, reason |-> "daily"]
    ELSE IF st.currentDrawdown >= lim.maxDrawdown
      THEN [allowed |-> FALSE, reason |-> "drawdown"]
    ELSE [allowed |-> TRUE, reason |-> NoReason]

canOpenPosition_dailyFirst(st, lim, t, proposedSize) ==
    IF st.emergencyStopTriggered
      THEN [allowed |-> FALSE, reason |-> "emergency"]
    ELSE IF st.dailyLoss >= lim.maxDailyLoss
      THEN [allowed |-> FALSE, reason |-> "daily"]
    ELSE IF st.isInCooldown /\ (t - st.lastTradeTime < lim.cooldownPeriod)
      THEN [allowed |-> FALSE, reason |-> "cooldown"]
    ELSE IF proposedSize > lim.maxPositionSize
      THEN [allowed |-> FALSE, reason |-> "size"]
    ELSE IF st.consecutiveLosses >= lim.maxConsecutiveLosses
      THEN [allowed |-> FALSE, reason |-> "consecutive"]
    ELSE IF st.currentDrawdown >= lim.maxDrawdown
      THEN [allowed |-> FALSE, reason |-> "drawdown"]
    ELSE [allowed |-> TRUE, reason |-> NoReason]

\* canOpenPosition(proposedSize): the gates in the order of the code
canOpenPosition(st, lim, t, proposedSize) ==
    IF st.emergencyStopTriggered
      THEN [allowed |-> FALSE, reason |-> "emergency"]
    ELSE IF st.isInCooldown /\ (t - st.lastTradeTime < lim.cooldownPeriod)
      THEN [allowed |-> FALSE, reason |-> "cooldown"]
    ELSE IF proposedSize > lim.maxPositionSize
      THEN [allowed |-> FALSE, reason |-> "size"]
    ELSE IF st.consecutiveLosses >= lim.maxConsecutiveLosses
      THEN [allowed |-> FALSE, reason |-> "consecutive"]
    ELSE IF st.dailyLoss >= lim.maxDailyLoss
      THEN [allowed |-> FALSE, reason |-> "daily"]
    ELSE IF st.currentDrawdown >= lim.maxDrawdown
      THEN [allowed |-> FALSE, reason |-> "drawdown"]
    ELSE [allowed |-> TRUE, reason |-> NoReason]

CanOpenPosition(proposedSize) ==
    /\ rmRet' = [op |-> "canOpenPosition", arg |-> proposedSize,
                 allowed |-> canOpenPosition(state, limits, now, proposedSize).allowed,
                 reason |-> canOpenPosition(state, limits, now, proposedSize).reason]
    /\ UNCHANGED <<now, limits, state, tradeHistory, cooldownOpened>>
    /\ UNCHANGED <<volVars, closeVars, fetchVars, laterVars>>

\* the drawdown at the end of the history instead of the largest one
RECURSIVE DrawdownLoop_last(_, _, _, _, _)
DrawdownLoop_last(hist, i, peak, currentPnl, maxDrawdown) ==
    IF i > Len(hist) THEN maxDrawdown
    ELSE LET c == currentPnl + hist[i].pnl
             p == IF c > peak THEN c ELSE peak
         IN DrawdownLoop_last(hist, i + 1, p, c, p - c)

\* the loop of updateDrawdown over tradeHistory[i..], carrying its locals
RECURSIVE DrawdownLoop(_, _, _, _, _)
DrawdownLoop(hist, i, peak, currentPnl, maxDrawdown) ==
    IF i > Len(hist) THEN maxDrawdown
    ELSE LET c == currentPnl + hist[i].pnl
             p == IF c > peak THEN c ELSE peak
             d == p - c
         IN DrawdownLoop(hist, i + 1, p, c, IF d > maxDrawdown THEN d ELSE maxDrawdown)

\* updateDrawdown(): the new value of state.currentDrawdown
updateDrawdown(hist, old) ==
    IF Len(hist) = 0 THEN old ELSE DrawdownLoop(hist, 1, 0, 0, 0)

\* recordTrade, the branch on the sign of pnl
applyPnl_zeroIsLoss(st, pnl) ==
    IF pnl <= 0
      THEN [st EXCEPT !.consecutiveLosses = @ + 1, !.dailyLoss = @ + Abs(pnl)]
      ELSE [st EXCEPT !.consecutiveLosses = 0]

\* a profit taken off the daily loss
applyPnl_netDaily(st, pnl) ==
    IF pnl < 0
      THEN [st EXCEPT !.consecutiveLosses = @ + 1, !.dailyLoss = @ + Abs(pnl)]
      ELSE [st EXCEPT !.consecutiveLosses = 0, !.dailyLoss = @ - pnl]

applyPnl(st, pnl) ==
    IF pnl < 0
      THEN [st EXCEPT !.consecutiveLosses = @ + 1, !.dailyLoss = @ + Abs(pnl)]
      ELSE [st EXCEPT !.consecutiveLosses = 0]

\* recordTrade, the emergency-stop check
checkEmergencyStop_strict(st, lim) ==
    IF st.currentDrawdown > lim.emergencyStopLoss
      THEN [st EXCEPT !.emergencyStopTriggered = TRUE]
      ELSE st

checkEmergencyStop(st, lim) ==
    IF st.currentDrawdown >= lim.emergencyStopLoss
      THEN [st EXCEPT !.emergencyStopTriggered = TRUE]
      ELSE st

\* recordTrade, the cooldown check
enterCooldown_never(st, lim) == st

enterCooldown_pastLimit(st, lim) ==
    IF st.consecutiveLosses > lim.maxConsecutiveLosses
      THEN [st EXCEPT !.isInCooldown = TRUE]
      ELSE st

\* the flag following the streak, cleared once the streak is broken
enterCooldown_whileStreak(st, lim) ==
    [st EXCEPT !.isInCooldown = st.consecutiveLosses >= lim.maxConsecutiveLosses]

enterCooldown(st, lim) ==
    IF st.consecutiveLosses >= lim.maxConsecutiveLosses
      THEN [st EXCEPT !.isInCooldown = TRUE]
      ELSE st

\* recordTrade(pnl, isMaker): the new RiskState, hist being the history
\* with the trade already pushed
recordTradeState(st, lim, hist, t, pnl) ==
    LET s1 == [st EXCEPT !.lastTradeTime = t]
        s2 == applyPnl(s1, pnl)
        s3 == [s2 EXCEPT !.currentDrawdown = updateDrawdown(hist, @)]
        s4 == checkEmergencyStop(s3, lim)
    IN enterCooldown(s4, lim)

RecordTrade(pnl, isMaker) ==
    /\ Len(tradeHistory) < MaxTrades
    /\ tradeHistory' = Append(tradeHistory,
                              [timestamp |-> now, pnl |-> pnl, isMaker |-> isMaker])
    /\ state' = recordTradeState(state, limits, tradeHistory', now, pnl)
    /\ rmRet' = [op |-> "recordTrade", arg |-> pnl, allowed |-> FALSE,
                 reason |-> NoReason]
    /\ cooldownOpened' =
          IF state'.consecutiveLosses >= limits.maxConsecutiveLosses
            THEN [at |-> now, resetAfter |-> FALSE]
            ELSE cooldownOpened
    /\ UNCHANGED <<now, limits>>
    /\ UNCHANGED <<volVars, closeVars, fetchVars, laterVars>>

ResetDailyStats_clearsLatch ==
    /\ state' = [state EXCEPT !.dailyLoss = 0, !.consecutiveLosses = 0,
                              !.isInCooldown = FALSE,
                              !.emergencyStopTriggered = FALSE]
    /\ rmRet' = RmVoid("resetDailyStats")
    /\ cooldownOpened' = IF cooldownOpened.at >= 0
                           THEN [cooldownOpened EXCEPT !.resetAfter = TRUE]
                           ELSE cooldownOpened
    /\ UNCHANGED <<now, limits, tradeHistory>>
    /\ UNCHANGED <<volVars, closeVars, fetchVars, laterVars>>

\* the daily reset taking the drawdown back to 0
ResetDailyStats_clearsDrawdown ==
    /\ state' = [state EXCEPT !.dailyLoss = 0, !.consecutiveLosses = 0,
                              !.isInCooldown = FALSE, !.currentDrawdown = 0]
    /\ rmRet' = RmVoid("resetDailyStats")
    /\ cooldownOpened' = IF cooldownOpened.at >= 0
                           THEN [cooldownOpened EXCEPT !.resetAfter = TRUE]
                           ELSE cooldownOpened
    /\ UNCHANGED <<now, limits, tradeHistory>>
    /\ UNCHANGED <<volVars, closeVars, fetchVars, laterVars>>

ResetDailyStats ==
    /\ state' = [state EXCEPT !.dailyLoss = 0, !.consecutiveLosses = 0,
                              !.isInCooldown = FALSE]
    /\ rmRet' = RmVoid("resetDailyStats")
    /\ cooldownOpened' = IF cooldownOpened.at >= 0
                           THEN [cooldownOpened EXCEPT !.resetAfter = TRUE]
                           ELSE cooldownOpened
    /\ UNCHANGED <<now, limits, tradeHistory>>
    /\ UNCHANGED <<volVars, closeVars, fetchVars, laterVars>>

\* the latch reset ending the loss streak as well
ResetEmergencyStop_clearsStreak ==
    /\ state' = [state EXCEPT !.emergencyStopTriggered = FALSE,
                              !.consecutiveLosses = 0]
    /\ rmRet' = RmVoid("resetEmergencyStop")
    /\ UNCHANGED <<now, limits, tradeHistory, cooldownOpened>>
    /\ UNCHANGED <<volVars, closeVars, fetchVars, laterVars>>

ResetEmergencyStop ==
    /\ state' = [state EXCEPT !.emergencyStopTriggered = FALSE]
    /\ rmRet' = RmVoid("resetEmergencyStop")
    /\ UNCHANGED <<now, limits, tradeHistory, cooldownOpened>>
    /\ UNCHANGED <<volVars, closeVars, fetchVars, laterVars>>

\* the clock moves on between calls
RiskTick(d) ==
    /\ now + d <= LastNow(MaxTicks)
    /\ now' = now + d
    /\ rmRet' = RmNoCall
    /\ UNCHANGED <<limits, state, tradeHistory, cooldownOpened>>
    /\ UNCHANGED <<volVars, closeVars, fetchVars, laterVars>>

\* the multiplier without its floor
calculateRiskMultiplier_noFloor(st, lim) ==
    LET m1 == IF st.currentDrawdown * 10 > lim.maxDrawdown * 5
                THEN (MultiplierScale * 5) \div 10 ELSE MultiplierScale
        m2 == IF st.consecutiveLosses * 10 > lim.maxConsecutiveLosses * 5
                THEN (m1 * 3) \div 10 ELSE m1
        m3 == IF st.dailyLoss * 10 > lim.maxDailyLoss * 5
                THEN (m2 * 5) \div 10 ELSE m2
    IN m3

\* calculateRiskMultiplier()
calculateRiskMultiplier(st, lim) ==
    LET m1 == IF st.currentDrawdown * 10 > lim.maxDrawdown * 5
                THEN (MultiplierScale * 5) \div 10 ELSE MultiplierScale
        m2 == IF st.consecutiveLosses * 10 > lim.maxConsecutiveLosses * 5
                THEN (m1 * 3) \div 10 ELSE m1
        m3 == IF st.dailyLoss * 10 > lim.maxDailyLoss * 5
                THEN (m2 * 5) \div 10 ELSE m2
    IN Max({MultiplierScale \div 10, m3})

\* getSuggestedTradeSize(baseSize)
getSuggestedTradeSize(st, lim, baseSize) ==
    Max({MinSuggestedSize * MultiplierScale,
         baseSize * calculateRiskMultiplier(st, lim)})

GetSuggestedTradeSize(baseSize) ==
    /\ rmRet' = [op |-> "getSuggestedTradeSize", arg |-> baseSize,
                 result |-> getSuggestedTradeSize(state, limits, baseSize)]
    /\ UNCHANGED <<now, limits, state, tradeHistory, cooldownOpened>>
    /\ UNCHANGED <<volVars, closeVars, fetchVars, laterVars>>

\* Math.ceil(ms / 1000) for ms > 0
CeilSeconds(ms) == (ms + 999) \div 1000

\* getRiskAdvice(): the advice pushed, in order
getRiskAdvice(st, lim, t) ==
    LET a1 == IF st.currentDrawdown * 10 > lim.maxDrawdown * 8
                THEN <<[kind |-> "drawdown", seconds |-> 0]>> ELSE <<>>
        a2 == IF st.consecutiveLosses * 10 > lim.maxConsecutiveLosses * 7
                THEN <<[kind |-> "consecutive", seconds |-> 0]>> ELSE <<>>
        a3 == IF st.dailyLoss * 10 > lim.maxDailyLoss * 8
                THEN <<[kind |-> "daily", seconds |-> 0]>> ELSE <<>>
        remainingTime == lim.cooldownPeriod - (t - st.lastTradeTime)
        a4 == IF st.isInCooldown /\ remainingTime > 0
                THEN <<[kind |-> "cooldown", seconds |-> CeilSeconds(remainingTime)]>>
                ELSE <<>>
        a5 == IF st.emergencyStopTriggered
                THEN <<[kind |-> "emergency", seconds |-> 0]>> ELSE <<>>
    IN a1 \o a2 \o a3 \o a4 \o a5

GetRiskAdvice ==
    /\ rmRet' = [op |-> "getRiskAdvice", result |-> getRiskAdvice(state, limits, now)]
    /\ UNCHANGED <<now, limits, state, tradeHistory, cooldownOpened>>
    /\ UNCHANGED <<volVars, closeVars, fetchVars, laterVars>>

\* the state object itself handed out
getRiskState_shared(st) == [ref |-> "state", value |-> st]

\* getRiskState(): { ...this.state }, a new object with the same fields
getRiskState(st) == [ref |-> "copy", value |-> st]

GetRiskState ==
    /\ rmRet' = [op |-> "getRiskState", result |-> getRiskState(state)]
    /\ UNCHANGED <<now, limits, state, tradeHistory, cooldownOpened>>
    /\ UNCHANGED <<volVars, closeVars, fetchVars, laterVars>>

\* the caller writes to the object getRiskState() returned; the write lands
\* in the manager's state only if that object is the state itself
CallerMutatesRiskState ==
    /\ rmRet.op = "getRiskState"
    /\ LET written == [rmRet.result.value EXCEPT !.emergencyStopTriggered = ~@,
                                                 !.dailyLoss = @ + 1]
       IN /\ rmRet' = [op |-> "callerMutation",
                       result |-> [rmRet.result EXCEPT !.value = written]]
          /\ state' = IF rmRet.result.ref = "state" THEN written ELSE state
    /\ UNCHANGED <<now, limits, tradeHistory, cooldownOpened>>
    /\ UNCHANGED <<volVars, closeVars, fetchVars, laterVars>>

(***************************************************************************)
(* VolumeStrategyOptimizer.  Volumes are counted in thousandths, so that   *)
(* the 0.001 floor of the suggested volume is 1.                           *)
(***************************************************************************)
VolInit ==
    /\ config \in ConfigSet
    /\ volHistory = <<>>
    /\ volLastTradeTime = 0
    /\ voRet = VoNoCall

\* getRecentVolume with a half-open window: a trade exactly timeWindow old
\* is left out
getRecentVolume_exclusive(hist, t, timeWindow) ==
    SumVolume(SelectSeq(hist, LAMBDA tr : t - tr.timestamp < timeWindow))

\* getRecentVolume(timeWindow)
getRecentVolume(hist, t, timeWindow) ==
    SumVolume(SelectSeq(hist, LAMBDA tr : t - tr.timestamp <= timeWindow))

\* canExecuteTrade with the volume cap checked before the trade interval
canExecuteTrade_volumeFirst(cfg, hist, last, t, proposedVolume) ==
    LET timeSinceLastTrade == t - last
        recentVolume == getRecentVolume(hist, t, VolumeWindow)
    IN IF recentVolume + proposedVolume > cfg.maxVolumePerMinute
         THEN [allowed |-> FALSE, reason |-> "volume",
               suggestedVolume |->
                   IF cfg.maxVolumePerMinute - recentVolume > MinSuggestedVolume
                     THEN cfg.maxVolumePerMinute - recentVolume
                     ELSE MinSuggestedVolume]
       ELSE IF timeSinceLastTrade < cfg.minTradeInterval
         THEN [allowed |-> FALSE, reason |-> "interval",
               suggestedVolume |-> Undefined]
       ELSE [allowed |-> TRUE, reason |-> NoReason, suggestedVolume |-> Undefined]

\* canExecuteTrade(proposedVolume)
canExecuteTrade(cfg, hist, last, t, proposedVolume) ==
    LET timeSinceLastTrade == t - last
        recentVolume == getRecentVolume(hist, t, VolumeWindow)
    IN IF timeSinceLastTrade < cfg.minTradeInterval
         THEN [allowed |-> FALSE, reason |-> "interval",
               suggestedVolume |-> Undefined]
       ELSE IF recentVolume + proposedVolume > cfg.maxVolumePerMinute
         THEN [allowed |-> FALSE, reason |-> "volume",
               suggestedVolume |->
                   IF cfg.maxVolumePerMinute - recentVolume > MinSuggestedVolume
                     THEN cfg.maxVolumePerMinute - recentVolume
                     ELSE MinSuggestedVolume]
       ELSE [allowed |-> TRUE, reason |-> NoReason, suggestedVolume |-> Undefined]

\* an admission that reserves its slot by stamping lastTradeTime
CanExecuteTrade_reserves(proposedVolume) ==
    /\ voRet' = [op |-> "canExecuteTrade", arg |-> proposedVolume] @@
                canExecuteTrade(config, volHistory, volLastTradeTime, now,
                                proposedVolume)
    /\ volLastTradeTime' = IF voRet'.allowed THEN now ELSE volLastTradeTime
    /\ UNCHANGED <<now, config, volHistory>>
    /\ UNCHANGED <<riskVars, closeVars, fetchVars, laterVars>>

CanExecuteTrade(proposedVolume) ==
    /\ voRet' = [op |-> "canExecuteTrade", arg |-> proposedVolume] @@
                canExecuteTrade(config, volHistory, volLastTradeTime, now,
                                proposedVolume)
    /\ UNCHANGED <<now, config, volHistory, volLastTradeTime>>
    /\ UNCHANGED <<riskVars, closeVars, fetchVars, laterVars>>

\* getVolumeMetrics().volumePerMinute
volumePerMinute(hist, t) ==
    SumVolume(SelectSeq(hist, LAMBDA tr : tr.timestamp > t - VolumeWindow))

\* updateVolumeStats(): getVolumeMetrics returns no sessionVolume,
\* avgTradeSize or volumeEfficiency, so these three become undefined
updateVolumeStats(cfg, hist, t) ==
    [cfg EXCEPT !.volumeStats =
        [totalVolume |-> Undefined,
         tradesPerMinute |-> volumePerMinute(hist, t),
         avgTradeSize |-> Undefined,
         volumeEfficiency |-> Undefined]]

\* recordTrade(volume, pnl, holdTime, isMaker)
VolRecordTrade(volume, pnl, holdTime, isMaker) ==
    /\ Len(volHistory) < MaxVolTrades
    /\ volHistory' = Append(volHistory,
                            [timestamp |-> now, volume |-> volume, pnl |-> pnl,
                             holdTime |-> holdTime, isMaker |-> isMaker])
    /\ volLastTradeTime' = now
    /\ config' = updateVolumeStats(config, volHistory', now)
    /\ voRet' = [op |-> "recordTrade", arg |-> volume, allowed |-> FALSE,
                 reason |-> NoReason, suggestedVolume |-> Undefined]
    /\ UNCHANGED now
    /\ UNCHANGED <<riskVars, closeVars, fetchVars, laterVars>>

\* a caller that records a trade only right after canExecuteTrade admitted
\* that volume
RecordAdmittedTrade(volume, pnl, holdTime, isMaker) ==
    /\ voRet.op = "canExecuteTrade"
    /\ voRet.allowed
    /\ voRet.arg = volume
    /\ VolRecordTrade(volume, pnl, holdTime, isMaker)

\* Two callers.  The first holds an admission it has not recorded yet when
\* the second asks canExecuteTrade(proposedVolume); the answer is returned
\* together with what the first caller holds.
SecondCanExecuteTrade(proposedVolume) ==
    /\ voRet.op = "canExecuteTrade"
    /\ voRet.allowed
    /\ "held" \notin DOMAIN voRet
    /\ voRet' = [op |-> "canExecuteTrade", arg |-> proposedVolume,
                 held |-> voRet.arg] @@
                canExecuteTrade(config, volHistory, volLastTradeTime, now,
                                proposedVolume)
    /\ UNCHANGED <<now, config, volHistory, volLastTradeTime>>
    /\ UNCHANGED <<riskVars, closeVars, fetchVars, laterVars>>

\* both callers were admitted: the first one records its trade
RecordHeldTrade(pnl, holdTime, isMaker) ==
    /\ voRet.op = "canExecuteTrade"
    /\ voRet.allowed
    /\ "held" \in DOMAIN voRet
    /\ Len(volHistory) < MaxVolTrades
    /\ volHistory' = Append(volHistory,
                            [timestamp |-> now, volume |-> voRet.held, pnl |-> pnl,
                             holdTime |-> holdTime, isMaker |-> isMaker])
    /\ volLastTradeTime' = now
    /\ config' = updateVolumeStats(config, volHistory', now)
    /\ voRet' = [op |-> "recordTrade", arg |-> voRet.held, allowed |-> FALSE,
                 reason |-> NoReason, suggestedVolume |-> Undefined,
                 pending |-> voRet.arg]
    /\ UNCHANGED now
    /\ UNCHANGED <<riskVars, closeVars, fetchVars, laterVars>>

\* then the second caller records the trade it was admitted for
RecordPendingTrade(pnl, holdTime, isMaker) ==
    /\ voRet.op = "recordTrade"
    /\ "pending" \in DOMAIN voRet
    /\ Len(volHistory) < MaxVolTrades
    /\ volHistory' = Append(volHistory,
                            [timestamp |-> now, volume |-> voRet.pending, pnl |-> pnl,
                             holdTime |-> holdTime, isMaker |-> isMaker])
    /\ volLastTradeTime' = now
    /\ config' = updateVolumeStats(config, volHistory', now)
    /\ voRet' = [op |-> "recordTrade", arg |-> voRet.pending, allowed |-> FALSE,
                 reason |-> NoReason, suggestedVolume |-> Undefined,
                 after |-> voRet.arg]
    /\ UNCHANGED now
    /\ UNCHANGED <<riskVars, closeVars, fetchVars, laterVars>>

\* shouldQuickClose without its drawdown test
shouldQuickClose_noDrawdown(cfg, currentPnl, holdTime) ==
    IF Abs(currentPnl) >= cfg.quickCloseThreshold THEN TRUE
    ELSE IF holdTime >= cfg.maxPositionHoldTime THEN TRUE
    ELSE FALSE

\* shouldQuickClose(currentPnl, holdTime)
shouldQuickClose(cfg, currentPnl, holdTime) ==
    IF Abs(currentPnl) >= cfg.quickCloseThreshold THEN TRUE
    ELSE IF holdTime >= cfg.maxPositionHoldTime THEN TRUE
    ELSE IF currentPnl <= -cfg.maxDrawdownPerTrade THEN TRUE
    ELSE FALSE

ShouldQuickClose(currentPnl, holdTime) ==
    /\ voRet' = [op |-> "shouldQuickClose", arg |-> currentPnl,
                 holdTime |-> holdTime,
                 result |-> shouldQuickClose(config, currentPnl, holdTime),
                 allowed |-> FALSE, reason |-> NoReason,
                 suggestedVolume |-> Undefined]
    /\ UNCHANGED <<now, config, volHistory, volLastTradeTime>>
    /\ UNCHANGED <<riskVars, closeVars, fetchVars, laterVars>>

\* resetSession(); sessionStartTime, which only getSuggestedTradeSize()
\* reads, is not part of the state
ResetSession ==
    /\ volHistory' = <<>>
    /\ volLastTradeTime' = 0
    /\ voRet' = [op |-> "resetSession", arg |-> 0, allowed |-> FALSE,
                 reason |-> NoReason, suggestedVolume |-> Undefined]
    /\ UNCHANGED <<now, config>>
    /\ UNCHANGED <<riskVars, closeVars, fetchVars, laterVars>>

VolTick(d) ==
    /\ now + d <= LastNow(VolMaxTicks)
    /\ now' = now + d
    /\ voRet' = VoNoCall
    /\ UNCHANGED <<config, volHistory, volLastTradeTime>>
    /\ UNCHANGED <<riskVars, closeVars, fetchVars, laterVars>>

(***************************************************************************)
(* CloseStrategyManager                                                    *)
(***************************************************************************)
CloseInit ==
    /\ closeConfig \in CloseConfigSet
    /\ orderStartTime = 0
    /\ isActive = FALSE
    /\ timeoutReported = FALSE
    /\ csRet = CsNoCall

StartCloseStrategy ==
    /\ isActive' = TRUE
    /\ timeoutReported' = FALSE
    /\ orderStartTime' = now
    /\ csRet' = [op |-> "startCloseStrategy"]
    /\ UNCHANGED <<now, closeConfig>>
    /\ UNCHANGED <<riskVars, volVars, fetchVars, laterVars>>

StopCloseStrategy ==
    /\ isActive' = FALSE
    /\ timeoutReported' = FALSE
    /\ csRet' = [op |-> "stopCloseStrategy"]
    /\ UNCHANGED <<now, closeConfig, orderStartTime>>
    /\ UNCHANGED <<riskVars, volVars, fetchVars, laterVars>>

\* the timeout test with >= for >
closeTimedOut_inclusive(cfg, active, start, t) ==
    active /\ (t - start) >= cfg.timeoutMs

\* calculateClosePrice, the isTimeout local
closeTimedOut(cfg, active, start, t) ==
    active /\ (t - start) > cfg.timeoutMs

\* the required profit without the close fee
minProfitRequiredOf_openFeeOnly(cfg, entryPrice, amount) ==
    LET notional == entryPrice * amount
        openFee == notional * LIMIT_MAKER
    IN openFee + (notional * cfg.minProfitMargin)

\* calculateClosePrice, the minProfitRequired local
minProfitRequiredOf(cfg, entryPrice, amount) ==
    LET notional == entryPrice * amount
        openFee == notional * LIMIT_MAKER
        closeFee == notional * MARKET_TAKER
        totalFees == openFee + closeFee
    IN totalFees + (notional * cfg.minProfitMargin)

\* the close price without the clamp to the top of book
closePriceOf_unclamped(entryPrice, amount, side, currentBid, currentAsk, minProfitRequired) ==
    IF side = "SELL"
      THEN entryPrice * RateScale + (minProfitRequired \div amount)
      ELSE entryPrice * RateScale - (minProfitRequired \div amount)

\* the close price with the two directions mixed up
closePriceOf_wrongSign(entryPrice, amount, side, currentBid, currentAsk, minProfitRequired) ==
    IF side = "SELL"
      THEN Min({entryPrice * RateScale - (minProfitRequired \div amount),
                currentBid * RateScale})
      ELSE Max({entryPrice * RateScale + (minProfitRequired \div amount),
                currentAsk * RateScale})

\* the close price always taken from the top of book
closePriceOf_bestPrice(entryPrice, amount, side, currentBid, currentAsk, minProfitRequired) ==
    IF side = "SELL" THEN currentBid * RateScale ELSE currentAsk * RateScale

\* calculateClosePrice, the closePrice local
closePriceOf(entryPrice, amount, side, currentBid, currentAsk, minProfitRequired) ==
    IF side = "SELL"
      THEN Min({entryPrice * RateScale + (minProfitRequired \div amount),
                currentBid * RateScale})
      ELSE Max({entryPrice * RateScale - (minProfitRequired \div amount),
                currentAsk * RateScale})

\* calculateClosePrice(entryPrice, amount, side, currentBid, currentAsk)
calculateClosePrice(cfg, active, start, t, entryPrice, amount, side, currentBid, currentAsk) ==
    IF closeTimedOut(cfg, active, start, t) /\ cfg.fallbackToOriginal
      THEN [side |-> side,
            price |-> (IF side = "SELL" THEN currentBid ELSE currentAsk) * RateScale,
            amount |-> amount, minProfitRequired |-> 0, isTimeout |-> TRUE,
            strategy |-> "original"]
      ELSE [side |-> side,
            price |-> closePriceOf(entryPrice, amount, side, currentBid, currentAsk,
                                   minProfitRequiredOf(cfg, entryPrice, amount)),
            amount |-> amount,
            minProfitRequired |-> minProfitRequiredOf(cfg, entryPrice, amount),
            isTimeout |-> FALSE, strategy |-> "profit_cover"]

CalculateClosePrice(entryPrice, amount, side, book) ==
    /\ csRet' = [op |-> "calculateClosePrice", entryPrice |-> entryPrice,
                 bid |-> book.bid, ask |-> book.ask] @@
                calculateClosePrice(closeConfig, isActive, orderStartTime, now,
                                    entryPrice, amount, side, book.bid, book.ask)
    /\ timeoutReported' = (timeoutReported \/ csRet'.isTimeout)
    /\ UNCHANGED <<now, closeConfig, orderStartTime, isActive>>
    /\ UNCHANGED <<riskVars, volVars, fetchVars, laterVars>>

\* shouldUseMarketClose with <= for <
shouldUseMarketClose_inclusive(closeInfo, entryPrice, amount, side, currentBid, currentAsk) ==
    IF closeInfo.strategy = "profit_cover"
      THEN LET currentPrice == IF side = "SELL" THEN currentBid ELSE currentAsk
               potentialProfit ==
                   IF side = "SELL"
                     THEN (currentPrice - entryPrice) * amount * RateScale
                     ELSE (entryPrice - currentPrice) * amount * RateScale
           IN potentialProfit <= closeInfo.minProfitRequired
      ELSE closeInfo.isTimeout

\* shouldUseMarketClose(...), closeInfo being what calculateClosePrice gave
shouldUseMarketClose(closeInfo, entryPrice, amount, side, currentBid, currentAsk) ==
    IF closeInfo.strategy = "profit_cover"
      THEN LET currentPrice == IF side = "SELL" THEN currentBid ELSE currentAsk
               potentialProfit ==
                   IF side = "SELL"
                     THEN (currentPrice - entryPrice) * amount * RateScale
                     ELSE (entryPrice - currentPrice) * amount * RateScale
           IN potentialProfit < closeInfo.minProfitRequired
      ELSE closeInfo.isTimeout

ShouldUseMarketClose(entryPrice, amount, side, book) ==
    /\ csRet' =
         LET closeInfo == calculateClosePrice(closeConfig, isActive, orderStartTime,
                                              now, entryPrice, amount, side,
                                              book.bid, book.ask)
         IN [op |-> "shouldUseMarketClose", entryPrice |-> entryPrice,
             amount |-> amount, side |-> side, bid |-> book.bid, ask |-> book.ask,
             closeInfo |-> closeInfo,
             result |-> shouldUseMarketClose(closeInfo, entryPrice, amount, side,
                                             book.bid, book.ask)]
    /\ UNCHANGED <<now, closeConfig, orderStartTime, isActive, timeoutReported>>
    /\ UNCHANGED <<riskVars, volVars, fetchVars, laterVars>>

\* getStrategyStatus()
getStrategyStatus(cfg, active, start, t) ==
    LET elapsedTime == IF active THEN t - start ELSE 0
    IN [isActive |-> active,
        elapsedTime |-> elapsedTime,
        isTimeout |-> active /\ elapsedTime > cfg.timeoutMs,
        remainingTime |-> Max({0, cfg.timeoutMs - elapsedTime})]

GetStrategyStatus ==
    /\ csRet' = [op |-> "getStrategyStatus"] @@
                getStrategyStatus(closeConfig, isActive, orderStartTime, now)
    /\ timeoutReported' = (timeoutReported \/ csRet'.isTimeout)
    /\ UNCHANGED <<now, closeConfig, orderStartTime, isActive>>
    /\ UNCHANGED <<riskVars, volVars, fetchVars, laterVars>>

CloseTick(d) ==
    /\ now + d <= LastNow(CloseMaxTicks)
    /\ now' = now + d
    /\ csRet' = CsNoCall
    /\ UNCHANGED <<closeConfig, orderStartTime, isActive, timeoutReported>>
    /\ UNCHANGED <<riskVars, volVars, fetchVars, laterVars>>

(***************************************************************************)
(* safeFetch                                                               *)
(***************************************************************************)
\* Response.ok
ok(status) == status \in 200..299

\* the backoff of the attempt after this one
computeBackoff_nextAttempt(attempt, base, max, jitter) ==
    Min({max, (base * 2^(attempt + 1) * JitterScale + jitter) \div JitterScale})

\* computeBackoff(attempt, base, max), jitter being Math.random() * base
computeBackoff(attempt, base, max, jitter) ==
    Min({max, (base * 2^attempt * JitterScale + jitter) \div JitterScale})

\* the retry test with <= for <
mayRetry_inclusive(attempt, maxRetries) == attempt <= maxRetries

\* attempt < maxRetries
mayRetry(attempt, maxRetries) == attempt < maxRetries

\* the call up to its first fetch
SafeFetch(policy, timeoutMs) ==
    /\ sf = SfNotCalled
    /\ sf' = [pc |-> "fetching",
              maxRetries |-> policy.maxRetries,
              baseDelay |-> policy.baseDelayMs,
              maxDelay |-> policy.maxDelayMs,
              retryStatuses |-> policy.retryOnStatuses,
              timeoutMs |-> timeoutMs,
              timerArmed |-> (timeoutMs # 0),
              aborted |-> FALSE,
              attempt |-> 0,
              fetchCalls |-> 1,
              outcomes |-> <<>>,
              clock |-> 0,
              delay |-> 0, jitter |-> 0, wake |-> 0,
              result |-> [kind |-> "none"]]
    /\ UNCHANGED <<now, riskVars, volVars, closeVars, laterVars>>

\* catch or retry branch: back off, then sleep inside the try statement
BackOff(outcome, jitter) ==
    LET d == computeBackoff(sf.attempt, sf.baseDelay, sf.maxDelay, jitter)
    IN sf' = [sf EXCEPT !.pc = "sleeping",
                        !.outcomes = Append(@, outcome),
                        !.delay = d, !.jitter = jitter,
                        !.attempt = @ + 1,
                        !.wake = sf.clock + d]

\* return or throw; the finally block clears the timer
Settle(pc, outcome) ==
    sf' = [sf EXCEPT !.pc = pc,
                     !.outcomes = Append(@, outcome),
                     !.result = outcome,
                     !.timerArmed = FALSE]

\* fetch resolves with a response
FetchResponds(status) ==
    /\ sf.pc = "fetching"
    /\ ~sf.aborted
    /\ LET outcome == [kind |-> "response", status |-> status]
       IN IF ~ok(status) /\ status \in sf.retryStatuses
               /\ mayRetry(sf.attempt, sf.maxRetries)
            THEN \E j \in 0..(sf.baseDelay * JitterScale - 1) : BackOff(outcome, j)
            ELSE Settle("returned", outcome)
    /\ UNCHANGED <<now, riskVars, volVars, closeVars, laterVars>>

\* fetch rejects: a transport failure, or the abort once the signal is aborted
FetchRejects ==
    /\ sf.pc = "fetching"
    /\ LET outcome == [kind |-> "error",
                       name |-> IF sf.aborted THEN "AbortError" ELSE "TypeError"]
       IN IF mayRetry(sf.attempt, sf.maxRetries)
            THEN \E j \in 0..(sf.baseDelay * JitterScale - 1) : BackOff(outcome, j)
            ELSE Settle("thrown", outcome)
    /\ UNCHANGED <<now, riskVars, volVars, closeVars, laterVars>>

\* every attempt given a controller and a timer of its own
SleepDone_freshController ==
    /\ sf.pc = "sleeping"
    /\ sf.clock = sf.wake
    /\ sf' = [sf EXCEPT !.pc = "fetching",
                        !.timerArmed = (sf.timeoutMs # 0),
                        !.aborted = FALSE,
                        !.fetchCalls = @ + 1]
    /\ UNCHANGED <<now, riskVars, volVars, closeVars, laterVars>>

\* sleep resolves, continue leaves the try statement through finally, and the
\* loop calls fetch again
SleepDone ==
    /\ sf.pc = "sleeping"
    /\ sf.clock = sf.wake
    /\ sf' = [sf EXCEPT !.pc = "fetching",
                        !.timerArmed = FALSE,
                        !.fetchCalls = @ + 1]
    /\ UNCHANGED <<now, riskVars, volVars, closeVars, laterVars>>

\* a millisecond passes while the call is pending; an armed timer that is due
\* aborts the controller, and a fetch on an aborted signal rejects at once
SfTick ==
    /\ sf.pc \in {"fetching", "sleeping"}
    /\ sf.clock < SfMaxClock
    /\ sf.pc = "sleeping" => sf.clock < sf.wake
    /\ sf.pc = "fetching" => ~sf.aborted
    /\ LET fires == sf.timerArmed /\ sf.clock + 1 >= sf.timeoutMs
       IN sf' = [sf EXCEPT !.clock = @ + 1,
                           !.aborted = @ \/ fires,
                           !.timerArmed = @ /\ ~fires]
    /\ UNCHANGED <<now, riskVars, volVars, closeVars, laterVars>>

(***************************************************************************)
(* Fee schedule                                                            *)
(***************************************************************************)
\* the maker rate for every order that filled as maker
getFeeRate_makerAnyType(orderType, isMaker) ==
    IF isMaker THEN LIMIT_MAKER ELSE MARKET_TAKER

\* getFeeRate(orderType, isMaker)
getFeeRate(orderType, isMaker) ==
    CASE orderType = "LIMIT" -> IF isMaker THEN LIMIT_MAKER ELSE MARKET_TAKER
      [] orderType = "MARKET" -> MARKET_TAKER
      [] orderType = "STOP_MARKET" -> STOP_MARKET
      [] orderType = "TRAILING_STOP_MARKET" -> TRAILING_STOP
      [] OTHER -> MARKET_TAKER

\* calculateOrderFee(orderType, isMaker, notional)
calculateOrderFee(orderType, isMaker, notional) ==
    [orderType |-> orderType, isMaker |-> isMaker, notional |-> notional,
     feeRate |-> getFeeRate(orderType, isMaker),
     feeAmount |-> notional * getFeeRate(orderType, isMaker)]

GetFeeRate(orderType, isMaker) ==
    /\ ttRet' = [op |-> "getFeeRate", orderType |-> orderType, isMaker |-> isMaker,
                 result |-> getFeeRate(orderType, isMaker)]
    /\ UNCHANGED <<now, trades>>
    /\ UNCHANGED <<riskVars, volVars, closeVars, fetchVars, pnlVars, appVars>>

CalculateOrderFee(orderType, isMaker, notional) ==
    /\ ttRet' = [op |-> "calculateOrderFee",
                 result |-> calculateOrderFee(orderType, isMaker, notional)]
    /\ UNCHANGED <<now, trades>>
    /\ UNCHANGED <<riskVars, volVars, closeVars, fetchVars, pnlVars, appVars>>

(***************************************************************************)
(* TradeTracker.  The feeConfig the constructor stores is read by none of  *)
(* the methods.                                                            *)
(***************************************************************************)
\* a || b on strings and on optional values
OrElse(a, b) == IF a # <<>> THEN a ELSE b

\* parseFloat of a string that spells a number
parseFloat(str) == str[1]

\* the id of a record: the order id, Date.now() and a random suffix, for
\* which the position of the record stands
recordId(orderId, t, hist) == <<orderId, t, Len(hist) + 1>>

\* addTrade(trade): the record pushed
addTradeRecord(trade, t, hist) ==
    LET notional == trade.price * trade.amount
        feeInfo == calculateOrderFee(trade.orderType, trade.isMaker, notional)
    IN [id |-> recordId(trade.orderId, t, hist), timestamp |-> t,
        symbol |-> trade.symbol, side |-> trade.side, price |-> trade.price,
        amount |-> trade.amount, notional |-> notional, isMaker |-> trade.isMaker,
        orderType |-> trade.orderType, fee |-> feeInfo.feeAmount,
        feeRate |-> feeInfo.feeRate, feeAsset |-> "USDT",
        orderId |-> trade.orderId]

AddTrade(trade) ==
    /\ Len(trades) < MaxTrackerTrades
    /\ trades' = Append(trades, addTradeRecord(trade, now, trades))
    /\ ttRet' = [op |-> "addTrade", arg |-> trade]
    /\ UNCHANGED now
    /\ UNCHANGED <<riskVars, volVars, closeVars, fetchVars, pnlVars, appVars>>

\* the reported commission taken as the fee whenever it is not zero
orderUpdateFee_anyCommission(commission, orderType, isMaker, notional) ==
    IF commission # 0
      THEN [fee |-> commission,
            feeRate |-> IF notional > 0 THEN commission \div notional ELSE 0]
      ELSE [fee |-> calculateOrderFee(orderType, isMaker, notional).feeAmount,
            feeRate |-> calculateOrderFee(orderType, isMaker, notional).feeRate]

\* addTradeFromOrderUpdate, the fee and feeRate locals
orderUpdateFee(commission, orderType, isMaker, notional) ==
    IF commission > 0
      THEN [fee |-> commission,
            feeRate |-> IF notional > 0 THEN commission \div notional ELSE 0]
      ELSE [fee |-> calculateOrderFee(orderType, isMaker, notional).feeAmount,
            feeRate |-> calculateOrderFee(orderType, isMaker, notional).feeRate]

\* addTradeFromOrderUpdate(orderUpdate): the record pushed
orderUpdateRecord(orderUpdate, t, hist) ==
    LET price == parseFloat(OrElse(orderUpdate.avgPrice, orderUpdate.price))
        amount == parseFloat(orderUpdate.executedQty)
        notional == price * amount
        isMaker == IF orderUpdate.isMaker # <<>> THEN orderUpdate.isMaker[1]
                   ELSE orderUpdate.type = <<"LIMIT">>
        commission == parseFloat(OrElse(orderUpdate.commission, <<0>>))
        orderType == OrElse(orderUpdate.type, <<"MARKET">>)[1]
        f == orderUpdateFee(commission, orderType, isMaker, notional)
    IN [id |-> recordId(orderUpdate.orderId, t, hist), timestamp |-> t,
        symbol |-> orderUpdate.symbol, side |-> orderUpdate.side,
        price |-> price, amount |-> amount, notional |-> notional,
        isMaker |-> isMaker, orderType |-> orderType,
        fee |-> f.fee, feeRate |-> f.feeRate,
        feeAsset |-> OrElse(orderUpdate.commissionAsset, <<"USDT">>)[1],
        orderId |-> orderUpdate.orderId]

AddTradeFromOrderUpdate(orderUpdate) ==
    /\ Len(trades) < MaxTrackerTrades
    /\ trades' = Append(trades, orderUpdateRecord(orderUpdate, now, trades))
    /\ ttRet' = [op |-> "addTradeFromOrderUpdate", arg |-> orderUpdate]
    /\ UNCHANGED now
    /\ UNCHANGED <<riskVars, volVars, closeVars, fetchVars, pnlVars, appVars>>

\* An array handed to the caller: "copy" is a new array, "trades" the
\* tracker's own; the records in it are the tracker's own objects either way.
\* the tracker's own array handed out
getAllTrades_ownArray(hist) == [ref |-> "trades", items |-> hist]

\* getAllTrades(): [...this.trades]
getAllTrades(hist) == [ref |-> "copy", items |-> hist]

GetAllTrades ==
    /\ ttRet' = [op |-> "getAllTrades", result |-> getAllTrades(trades)]
    /\ UNCHANGED <<now, trades>>
    /\ UNCHANGED <<riskVars, volVars, closeVars, fetchVars, pnlVars, appVars>>

\* this.trades.filter(...) of getTradesInRange
RECURSIVE FilterInRange(_, _, _)
FilterInRange(hist, startTime, endTime) ==
    IF hist = <<>> THEN <<>>
    ELSE (IF Head(hist).timestamp >= startTime /\ Head(hist).timestamp <= endTime
            THEN <<Head(hist)>> ELSE <<>>)
         \o FilterInRange(Tail(hist), startTime, endTime)

\* getTradesInRange(startTime, endTime)
getTradesInRange(hist, startTime, endTime) ==
    [ref |-> "copy", items |-> FilterInRange(hist, startTime, endTime)]

GetTradesInRange(startTime, endTime) ==
    /\ ttRet' = [op |-> "getTradesInRange", startTime |-> startTime,
                 endTime |-> endTime,
                 result |-> getTradesInRange(trades, startTime, endTime)]
    /\ UNCHANGED <<now, trades>>
    /\ UNCHANGED <<riskVars, volVars, closeVars, fetchVars, pnlVars, appVars>>

\* getRecentTrades(count): this.trades.slice(-count); slice(-0) is slice(0)
getRecentTrades(hist, count) ==
    [ref |-> "copy",
     items |-> IF count = 0 THEN hist
               ELSE SubSeq(hist, Max({1, Len(hist) - count + 1}), Len(hist))]

GetRecentTrades(count) ==
    /\ ttRet' = [op |-> "getRecentTrades", count |-> count,
                 result |-> getRecentTrades(trades, count)]
    /\ UNCHANGED <<now, trades>>
    /\ UNCHANGED <<riskVars, volVars, closeVars, fetchVars, pnlVars, appVars>>

\* clear()
Clear ==
    /\ trades' = <<>>
    /\ ttRet' = [op |-> "clear"]
    /\ UNCHANGED now
    /\ UNCHANGED <<riskVars, volVars, closeVars, fetchVars, pnlVars, appVars>>

ReturnedArray ==
    ttRet.op \in {"getAllTrades", "getTradesInRange", "getRecentTrades"}

\* the caller removes the first element of the array it was handed and
\* reverses the rest; the tracker's list follows only if it is that array
CallerEditsArray ==
    /\ ReturnedArray
    /\ Len(ttRet.result.items) > 0
    /\ LET rest == Tail(ttRet.result.items)
           edited == [i \in 1..Len(rest) |-> rest[Len(rest) + 1 - i]]
       IN /\ ttRet' = [op |-> "callerEditsArray",
                       result |-> [ttRet.result EXCEPT !.items = edited]]
          /\ trades' = IF ttRet.result.ref = "trades" THEN edited ELSE trades
    /\ UNCHANGED now
    /\ UNCHANGED <<riskVars, volVars, closeVars, fetchVars, pnlVars, appVars>>

\* the caller writes to a field of the first record of the array it was
\* handed; the record is the tracker's own object
CallerWritesRecord ==
    /\ ReturnedArray
    /\ Len(ttRet.result.items) > 0
    /\ LET target == ttRet.result.items[1].id
           Write(hist) == [i \in 1..Len(hist) |->
                             IF hist[i].id = target
                               THEN [hist[i] EXCEPT !.fee = 0] ELSE hist[i]]
       IN /\ ttRet' = [op |-> "callerWritesRecord",
                       result |-> [ttRet.result EXCEPT !.items = Write(@)]]
          /\ trades' = Write(trades)
    /\ UNCHANGED now
    /\ UNCHANGED <<riskVars, volVars, closeVars, fetchVars, pnlVars, appVars>>

\* reduce((sum, trade) => sum + trade.fee, 0) over the records at idx
RECURSIVE SumFee(_, _)
SumFee(hist, idx) ==
    IF idx = {} THEN 0
    ELSE LET i == CHOOSE i \in idx : TRUE
         IN hist[i].fee + SumFee(hist, idx \ {i})

\* reduce((sum, trade) => sum + trade.notional, 0)
RECURSIVE SumNotional(_, _)
SumNotional(hist, idx) ==
    IF idx = {} THEN 0
    ELSE LET i == CHOOSE i \in idx : TRUE
         IN hist[i].notional + SumNotional(hist, idx \ {i})

\* the key of a record in feeBreakdown
breakdownKey(trade) ==
    <<trade.orderType, IF trade.isMaker THEN "MAKER" ELSE "TAKER">>

\* gross PnL realised by the sells over the buys
calculateGrossPnl_realized(hist) ==
    SumNotional(hist, {i \in DOMAIN hist : hist[i].side = "SELL"})
    - SumNotional(hist, {i \in DOMAIN hist : hist[i].side = "BUY"})

\* calculateGrossPnl(): return 0
calculateGrossPnl(hist) == 0

\* the fees of every order that is not a LIMIT order
marketOrderFees_allNonLimit(hist) ==
    SumFee(hist, {i \in DOMAIN hist : hist[i].orderType # "LIMIT"})

\* getStats, the marketOrderFees local
marketOrderFees(hist) ==
    SumFee(hist, {i \in DOMAIN hist : hist[i].orderType = "MARKET"})

\* getStats().  avgTradeSize and avgFeeRate are kept as <<numerator,
\* denominator>>, avgFeeRate before its multiplication by 100.
getStats(hist) ==
    IF Len(hist) = 0
      THEN [totalTrades |-> 0, totalVolume |-> 0, totalFees |-> 0,
            makerFees |-> 0, takerFees |-> 0, limitOrderFees |-> 0,
            marketOrderFees |-> 0, grossPnl |-> 0, netPnl |-> 0, winRate |-> 0,
            avgTradeSize |-> <<0, 1>>, avgFeeRate |-> <<0, 1>>,
            feeBreakdown |-> << >>]
      ELSE LET totalTrades == Len(hist)
               totalVolume == SumNotional(hist, DOMAIN hist)
               totalFees == SumFee(hist, DOMAIN hist)
               keys == {breakdownKey(hist[i]) : i \in DOMAIN hist}
               grossPnl == calculateGrossPnl(hist)
               profitableTrades == Cardinality({i \in DOMAIN hist : TRUE})
           IN [totalTrades |-> totalTrades,
               totalVolume |-> totalVolume,
               totalFees |-> totalFees,
               makerFees |-> SumFee(hist, {i \in DOMAIN hist : hist[i].isMaker}),
               takerFees |-> SumFee(hist, {i \in DOMAIN hist : ~hist[i].isMaker}),
               limitOrderFees |->
                   SumFee(hist, {i \in DOMAIN hist : hist[i].orderType = "LIMIT"}),
               marketOrderFees |-> marketOrderFees(hist),
               grossPnl |-> grossPnl,
               netPnl |-> grossPnl - totalFees,
               winRate |-> IF totalTrades > 0
                             THEN (profitableTrades * 100) \div totalTrades ELSE 0,
               avgTradeSize |-> IF totalTrades > 0
                                  THEN <<totalVolume, totalTrades>> ELSE <<0, 1>>,
               avgFeeRate |-> IF totalVolume > 0
                                THEN <<totalFees, totalVolume>> ELSE <<0, 1>>,
               feeBreakdown |->
                   [k \in keys |->
                      SumFee(hist, {i \in DOMAIN hist : breakdownKey(hist[i]) = k})]]

GetStats ==
    /\ ttRet' = [op |-> "getStats", result |-> getStats(trades)]
    /\ UNCHANGED <<now, trades>>
    /\ UNCHANGED <<riskVars, volVars, closeVars, fetchVars, pnlVars, appVars>>

TrackerTick(d) ==
    /\ now + d <= LastNow(TrackerMaxTicks)
    /\ now' = now + d
    /\ ttRet' = TtNoCall
    /\ UNCHANGED trades
    /\ UNCHANGED <<riskVars, volVars, closeVars, fetchVars, pnlVars, appVars>>

(***************************************************************************)
(* PnL functions                                                           *)
(***************************************************************************)
\* Number.isFinite
isFinite(x) == x.kind = "number"

\* computeGrossPnl(position, bestBid, bestAsk)
computeGrossPnl(position, bestBid, bestAsk) ==
    LET priceForPnl == IF position.positionAmt > 0 THEN bestBid ELSE bestAsk
        absAmt == Abs(position.positionAmt)
    IN IF ~isFinite(priceForPnl) THEN 0
       ELSE IF position.positionAmt > 0
              THEN (priceForPnl.v - position.entryPrice) * absAmt
              ELSE (position.entryPrice - priceForPnl.v) * absAmt

\* computePositionPnl(position, bestBid, bestAsk, totalFees)
computePositionPnl(position, bestBid, bestAsk, totalFees) ==
    LET priceForPnl == IF position.positionAmt > 0 THEN bestBid ELSE bestAsk
        absAmt == Abs(position.positionAmt)
        grossPnl == IF position.positionAmt > 0
                      THEN (priceForPnl.v - position.entryPrice) * absAmt
                      ELSE (position.entryPrice - priceForPnl.v) * absAmt
    IN IF ~isFinite(priceForPnl) THEN 0 ELSE grossPnl - totalFees

\* computeNetPnl(position, bestBid, bestAsk, tradeFees, feeConfig)
computeNetPnl(position, bestBid, bestAsk, tradeFees) ==
    computePositionPnl(position, bestBid, bestAsk, tradeFees)

PnlCall(name, position, bestBid, bestAsk, totalFees, result) ==
    /\ pnlRet' = [op |-> name, position |-> position, bestBid |-> bestBid,
                  bestAsk |-> bestAsk, totalFees |-> totalFees, result |-> result]
    /\ UNCHANGED <<now, riskVars, volVars, closeVars, fetchVars, trackerVars, appVars>>

ComputeGrossPnl(position, bestBid, bestAsk) ==
    PnlCall("computeGrossPnl", position, bestBid, bestAsk, 0,
            computeGrossPnl(position, bestBid, bestAsk))

ComputePositionPnl(position, bestBid, bestAsk, totalFees) ==
    PnlCall("computePositionPnl", position, bestBid, bestAsk, totalFees,
            computePositionPnl(position, bestBid, bestAsk, totalFees))

ComputeNetPnl(position, bestBid, bestAsk, tradeFees) ==
    PnlCall("computeNetPnl", position, bestBid, bestAsk, tradeFees,
            computeNetPnl(position, bestBid, bestAsk, tradeFees))

(***************************************************************************)
(* getAccounts and the terminal apps.  TrendApp and OffsetMakerApp have    *)
(* the same effect, cleanup and key handler; one model stands for both.    *)
(* The engines (on, off, start, stop, emitting updates) are not part of    *)
(* the sources at hand and follow the documented behaviour of a listener   *)
(* list: off removes the handler it is given.                              *)
(***************************************************************************)
\* x.apiKey ?? x.key ?? "", then String(...)
Coalesce(a, b) == IF a # <<>> THEN a[1] ELSE IF b # <<>> THEN b[1] ELSE ""

RECURSIVE MapFilterAccounts(_)
MapFilterAccounts(items) ==
    IF items = <<>> THEN <<>>
    ELSE LET x == Head(items)
             acc == [apiKey |-> Coalesce(x.apiKey, x.key),
                     apiSecret |-> Coalesce(x.apiSecret, x.secret)]
         IN (IF acc.apiKey # "" /\ acc.apiSecret # "" THEN <<acc>> ELSE <<>>)
            \o MapFilterAccounts(Tail(items))

\* a null result of parseJsonEnv
Null == <<"null">>

\* parseJsonEnv("ASTER_ACCOUNTS")
parseJsonEnv(json) ==
    CASE json.kind = "unset" -> Null
      [] json.kind = "invalid" -> Null
      [] json.kind = "object" -> Null
      [] json.kind = "array" -> MapFilterAccounts(json.items)

\* an indexed pair counted as soon as its key is set
indexedUsable_keyOnly(key, secret) == key # ""

\* parseIndexedEnv: if (key && secret)
indexedUsable(key, secret) == key # "" /\ secret # ""

\* parseIndexedEnv: the loop from slot i on
RECURSIVE IndexedLoop(_, _)
IndexedLoop(indexed, i) ==
    IF i > IndexedSlots THEN <<>>
    ELSE (IF indexedUsable(indexed[i].key, indexed[i].secret)
            THEN << [apiKey |-> indexed[i].key, apiSecret |-> indexed[i].secret] >>
            ELSE <<>>)
         \o IndexedLoop(indexed, i + 1)

parseIndexedEnv(indexed) == IndexedLoop(indexed, 1)

\* getAccounts()
getAccounts(env) ==
    LET fromJson == parseJsonEnv(env.json)
        indexed == parseIndexedEnv(env.indexed)
    IN IF fromJson # Null /\ Len(fromJson) > 0 THEN fromJson
       ELSE IF Len(indexed) > 0 THEN indexed
       ELSE IF env.single.key # "" /\ env.single.secret # ""
              THEN << [apiKey |-> env.single.key, apiSecret |-> env.single.secret] >>
              ELSE <<>>

\* engine.on("update", handler)
engineOn(engine, handler) == [engine EXCEPT !.handlers = @ \cup {handler}]

\* engine.off("update", handler)
engineOff(engine, handler) == [engine EXCEPT !.handlers = @ \ {handler}]

\* engine.start()
engineStart(engine) == [engine EXCEPT !.running = TRUE, !.started = TRUE]

\* engine.stop()
engineStop(engine) == [engine EXCEPT !.running = FALSE]

\* the engine of account idx, constructed, subscribed with this account's
\* handler and started
startedEngine(idx) ==
    engineStart(engineOn([key |-> idx, handlers |-> {}, running |-> FALSE,
                          started |-> FALSE],
                         [handler |-> "closure", account |-> idx]))

\* the component rendered for the first time, its effect not yet run
AppRendered(env) ==
    [phase |-> "rendered", env |-> env, error |-> FALSE, engines |-> <<>>,
     enginesRef |-> {}, snapshots |-> {}, hasCleanup |-> FALSE,
     exited |-> FALSE, delivered |-> 0, deliveredAfterUnmount |-> FALSE]

\* useEffect(() => {...}, []): runs once after the first render.  failAt is
\* the account whose adapter or engine constructor throws, 0 for none.
Mount(failAt) ==
    /\ app.phase = "rendered"
    /\ LET accounts == getAccounts(app.env)
       IN /\ failAt \in 0..Len(accounts)
          /\ app' =
               IF Len(accounts) = 0
                 THEN [app EXCEPT !.phase = "mounted", !.error = TRUE]
               ELSE IF failAt = 0
                 THEN [app EXCEPT !.phase = "mounted",
                                  !.engines = [i \in 1..Len(accounts) |-> startedEngine(i)],
                                  !.enginesRef = 1..Len(accounts),
                                  !.snapshots = 1..Len(accounts),
                                  !.hasCleanup = TRUE]
                 ELSE [app EXCEPT !.phase = "mounted",
                                  !.engines = [i \in 1..(failAt - 1) |-> startedEngine(i)],
                                  !.error = TRUE]
    /\ UNCHANGED <<now, riskVars, volVars, closeVars, fetchVars, trackerVars, pnlVars>>

\* a running engine publishes a snapshot to its handlers
EngineEmits(i) ==
    /\ app.phase \in {"mounted", "unmounted"}
    /\ i \in 1..Len(app.engines)
    /\ app.engines[i].running
    /\ app.engines[i].handlers # {}
    /\ IF app.phase = "mounted"
         THEN /\ app.delivered < MaxUpdates
              /\ app' = [app EXCEPT !.delivered = @ + 1,
                                    !.snapshots = @ \cup {app.engines[i].key}]
         ELSE /\ ~app.deliveredAfterUnmount
              /\ app' = [app EXCEPT !.deliveredAfterUnmount = TRUE]
    /\ UNCHANGED <<now, riskVars, volVars, closeVars, fetchVars, trackerVars, pnlVars>>

\* useInput: escape stops the engines of enginesRef and calls onExit
PressEscape ==
    /\ app.phase = "mounted"
    /\ ~app.exited
    /\ app' = [app EXCEPT !.exited = TRUE,
                          !.engines = [i \in 1..Len(@) |->
                                         IF i \in app.enginesRef
                                           THEN engineStop(@[i]) ELSE @[i]]]
    /\ UNCHANGED <<now, riskVars, volVars, closeVars, fetchVars, trackerVars, pnlVars>>

\* the handler the cleanup passes to off: undefined
CleanupHandler(i) == [handler |-> "undefined", account |-> 0]

\* the component unmounts: the cleanup the effect returned, if any, runs
Unmount ==
    /\ app.phase = "mounted"
    /\ app' = [app EXCEPT !.phase = "unmounted",
                          !.engines = [i \in 1..Len(@) |->
                                         IF app.hasCleanup /\ i \in app.enginesRef
                                           THEN engineStop(engineOff(@[i], CleanupHandler(i)))
                                           ELSE @[i]]]
    /\ UNCHANGED <<now, riskVars, volVars, closeVars, fetchVars, trackerVars, pnlVars>>

\* the risk manager alone, the volume optimizer untouched
Init ==
    /\ now \in InitialNows
    /\ RiskInit
    /\ config = CHOOSE c \in ConfigSet : TRUE
    /\ volHistory = <<>>
    /\ volLastTradeTime = 0
    /\ voRet = VoNoCall
    /\ CloseIdle
    /\ FetchIdle
    /\ LaterIdle

RiskNext ==
    \/ \E size \in ProposedSizes : CanOpenPosition(size)
    \/ \E pnl \in PnlValues, m \in IsMakerValues : RecordTrade(pnl, m)
    \/ ResetDailyStats
    \/ ResetEmergencyStop
    \/ \E d \in ClockSteps : RiskTick(d)

SpecRisk == Init /\ [][RiskNext]_vars

\* the volume optimizer alone, the risk manager untouched
VolumeInit ==
    /\ now \in InitialNows
    /\ VolInit
    /\ limits = CHOOSE l \in LimitsSet : TRUE
    /\ state = [currentDrawdown |-> 0, consecutiveLosses |-> 0, dailyLoss |-> 0,
                lastTradeTime |-> 0, isInCooldown |-> FALSE,
                emergencyStopTriggered |-> FALSE]
    /\ tradeHistory = <<>>
    /\ rmRet = RmNoCall
    /\ cooldownOpened = NeverOpened
    /\ CloseIdle
    /\ FetchIdle
    /\ LaterIdle

VolumeNext ==
    \/ \E v \in ProposedVolumes : CanExecuteTrade(v)
    \/ \E v \in ProposedVolumes, pnl \in VolPnlValues, h \in HoldTimes,
          m \in VolIsMakerValues : VolRecordTrade(v, pnl, h, m)
    \/ ResetSession
    \/ \E d \in ClockSteps : VolTick(d)

SpecVolume == VolumeInit /\ [][VolumeNext]_vars

\* every recordTrade is immediately preceded by a canExecuteTrade of the
\* same volume that returned allowed
VolumeNextAdmitted ==
    \/ \E v \in ProposedVolumes : CanExecuteTrade(v)
    \/ \E v \in ProposedVolumes, pnl \in VolPnlValues, h \in HoldTimes,
          m \in VolIsMakerValues : RecordAdmittedTrade(v, pnl, h, m)
    \/ \E d \in ClockSteps : VolTick(d)

SpecVolumeAdmitted == VolumeInit /\ [][VolumeNextAdmitted]_vars

\* every recorded trade was admitted, by one caller or by two callers that
\* both asked before either recorded
VolumeRaceNext ==
    \/ \E v \in ProposedVolumes : CanExecuteTrade(v)
    \/ \E v \in ProposedVolumes : SecondCanExecuteTrade(v)
    \/ \E v \in ProposedVolumes, pnl \in VolPnlValues, h \in HoldTimes,
          m \in VolIsMakerValues : RecordAdmittedTrade(v, pnl, h, m)
    \/ \E pnl \in VolPnlValues, h \in HoldTimes, m \in VolIsMakerValues :
          RecordHeldTrade(pnl, h, m)
    \/ \E pnl \in VolPnlValues, h \in HoldTimes, m \in VolIsMakerValues :
          RecordPendingTrade(pnl, h, m)
    \/ \E d \in ClockSteps : VolTick(d)

SpecVolumeRace == VolumeInit /\ [][VolumeRaceNext]_vars

\* the admitted trades, with shouldQuickClose asked in between
QuickCloseNext ==
    \/ \E v \in ProposedVolumes : CanExecuteTrade(v)
    \/ \E v \in ProposedVolumes, pnl \in VolPnlValues, h \in HoldTimes,
          m \in VolIsMakerValues : RecordAdmittedTrade(v, pnl, h, m)
    \/ \E pnl \in QuickPnlValues, h \in QuickHoldTimes : ShouldQuickClose(pnl, h)
    \/ \E d \in ClockSteps : VolTick(d)

SpecQuickClose == VolumeInit /\ [][QuickCloseNext]_vars

\* the risk manager and the volume optimizer as constructed and never used
RiskIdle ==
    /\ limits = CHOOSE l \in LimitsSet : TRUE
    /\ state = [currentDrawdown |-> 0, consecutiveLosses |-> 0, dailyLoss |-> 0,
                lastTradeTime |-> 0, isInCooldown |-> FALSE,
                emergencyStopTriggered |-> FALSE]
    /\ tradeHistory = <<>>
    /\ rmRet = RmNoCall
    /\ cooldownOpened = NeverOpened

VolIdle ==
    /\ config = CHOOSE c \in ConfigSet : TRUE
    /\ volHistory = <<>>
    /\ volLastTradeTime = 0
    /\ voRet = VoNoCall

\* the close strategy manager alone
CloseStrategyInit ==
    /\ now \in InitialNows
    /\ CloseInit
    /\ RiskIdle
    /\ VolIdle
    /\ FetchIdle
    /\ LaterIdle

CloseNext ==
    \/ StartCloseStrategy
    \/ StopCloseStrategy
    \/ \E e \in EntryPrices, a \in Amounts, sd \in Sides, b \in Books :
          CalculateClosePrice(e, a, sd, b)
    \/ \E e \in EntryPrices, a \in Amounts, sd \in Sides, b \in Books :
          ShouldUseMarketClose(e, a, sd, b)
    \/ GetStrategyStatus
    \/ \E d \in ClockSteps : CloseTick(d)

SpecClose == CloseStrategyInit /\ [][CloseNext]_vars

\* one safeFetch call alone
FetchInit ==
    /\ now \in InitialNows
    /\ FetchIdle
    /\ LaterIdle
    /\ RiskIdle
    /\ VolIdle
    /\ CloseIdle

FetchNext ==
    \/ \E p \in SfPolicies, t \in SfTimeouts : SafeFetch(p, t)
    \/ \E st \in Statuses : FetchResponds(st)
    \/ FetchRejects
    \/ SleepDone
    \/ SfTick

SpecFetch == FetchInit /\ [][FetchNext]_vars

\* the risk manager with its queries and a caller holding what they return
RiskQueriesNext ==
    \/ \E size \in ProposedSizes : CanOpenPosition(size)
    \/ \E pnl \in QueryPnlValues, m \in IsMakerValues : RecordTrade(pnl, m)
    \/ ResetDailyStats
    \/ ResetEmergencyStop
    \/ \E b \in BaseSizes : GetSuggestedTradeSize(b)
    \/ GetRiskAdvice
    \/ GetRiskState
    \/ CallerMutatesRiskState
    \/ \E d \in ClockSteps : RiskTick(d)

SpecRiskQueries == Init /\ [][RiskQueriesNext]_vars

\* the trade tracker and the fee schedule alone
TrackerInit ==
    /\ now \in InitialNows
    /\ TrackerIdle
    /\ PnlIdle
    /\ AppIdle
    /\ RiskIdle
    /\ VolIdle
    /\ CloseIdle
    /\ sf = SfNotCalled

TrackerNext ==
    \/ \E trade \in NewTrades : AddTrade(trade)
    \/ \E u \in OrderUpdates : AddTradeFromOrderUpdate(u)
    \/ GetAllTrades
    \/ \E r \in TimeRanges : GetTradesInRange(r[1], r[2])
    \/ \E c \in RecentCounts : GetRecentTrades(c)
    \/ Clear
    \/ CallerEditsArray
    \/ CallerWritesRecord
    \/ \E d \in ClockSteps : TrackerTick(d)

SpecTracker == TrackerInit /\ [][TrackerNext]_vars

\* the trade tracker followed for its statistics
StatsNext ==
    \/ \E trade \in StatsTrades : AddTrade(trade)
    \/ \E u \in OrderUpdates : AddTradeFromOrderUpdate(u)
    \/ GetStats
    \/ Clear
    \/ \E d \in ClockSteps : TrackerTick(d)

SpecStats == TrackerInit /\ [][StatsNext]_vars

\* the fee schedule alone
FeesNext ==
    \/ \E t \in OrderTypes, m \in BOOLEAN : GetFeeRate(t, m)
    \/ \E t \in OrderTypes, m \in BOOLEAN, n \in Notionals : CalculateOrderFee(t, m, n)

SpecFees == TrackerInit /\ [][FeesNext]_vars

\* the PnL functions alone
PnlNext ==
    \/ \E pos \in Positions, b \in BookPrices, a \in BookPrices :
          ComputeGrossPnl(pos, b, a)
    \/ \E pos \in Positions, b \in BookPrices, a \in BookPrices, f \in TotalFees :
          ComputePositionPnl(pos, b, a, f)
    \/ \E pos \in Positions, b \in BookPrices, a \in BookPrices, f \in TotalFees :
          ComputeNetPnl(pos, b, a, f)

SpecPnl == TrackerInit /\ [][PnlNext]_vars

\* one app from its first render to its unmount
AppInit ==
    /\ now \in InitialNows
    /\ app \in { AppRendered(env) : env \in Environments }
    /\ TrackerIdle
    /\ PnlIdle
    /\ RiskIdle
    /\ VolIdle
    /\ CloseIdle
    /\ sf = SfNotCalled

AppNext ==
    \/ \E failAt \in 0..IndexedSlots : Mount(failAt)
    \/ \E i \in 1..IndexedSlots : EngineEmits(i)
    \/ PressEscape
    \/ Unmount

SpecApp == AppInit /\ [][AppNext]_vars

\* the same program when resetEmergencyStop is never called
RiskNextNoEmergencyReset ==
    \/ \E size \in ProposedSizes : CanOpenPosition(size)
    \/ \E pnl \in PnlValues, m \in IsMakerValues : RecordTrade(pnl, m)
    \/ ResetDailyStats
    \/ \E d \in ClockSteps : RiskTick(d)

SpecRiskNoEmergencyReset == Init /\ [][RiskNextNoEmergencyReset]_vars

(***************************************************************************)
(* Properties of RiskManager                                               *)
(***************************************************************************)
CooldownActive ==
    state.isInCooldown /\ (now - state.lastTradeTime < limits.cooldownPeriod)

\* the six gates of the documented order, evaluated on the current state
GateFails(proposedSize) ==
    << state.emergencyStopTriggered,
       CooldownActive,
       proposedSize > limits.maxPositionSize,
       state.consecutiveLosses >= limits.maxConsecutiveLosses,
       state.dailyLoss >= limits.maxDailyLoss,
       state.currentDrawdown >= limits.maxDrawdown >>

GateReasons ==
    <<"emergency", "cooldown", "size", "consecutive", "daily", "drawdown">>

FailingGates(proposedSize) == {i \in 1..6 : GateFails(proposedSize)[i]}

Queried == rmRet.op = "canOpenPosition"

\* C1: canOpenPosition reports the reason of the first failing gate in the
\* order emergency stop, cooldown, size, loss streak, daily loss, drawdown,
\* and allows exactly when no gate fails.
C1_FirstFailingGate ==
    Queried =>
        IF FailingGates(rmRet.arg) = {}
          THEN rmRet.allowed /\ rmRet.reason = NoReason
          ELSE /\ ~rmRet.allowed
               /\ rmRet.reason = GateReasons[Min(FailingGates(rmRet.arg))]

C1_Witness ==
    /\ Queried
    /\ Cardinality(FailingGates(rmRet.arg)) >= 3
    /\ rmRet.reason = "size"

\* C2 as stated: with the latch clear, less than cooldownPeriod since
\* lastTradeTime is enough for canOpenPosition to report the cooldown.
C2_Original ==
    (Queried /\ ~state.emergencyStopTriggered
        /\ now - state.lastTradeTime < limits.cooldownPeriod)
    => (~rmRet.allowed /\ rmRet.reason = "cooldown")

\* C2 amended: with the latch clear, the isInCooldown flag set and less than
\* cooldownPeriod since lastTradeTime, canOpenPosition reports the cooldown,
\* also when the daily-loss limit is violated at the same time.
C2_CooldownFirst ==
    (Queried /\ ~state.emergencyStopTriggered /\ state.isInCooldown
        /\ now - state.lastTradeTime < limits.cooldownPeriod)
    => (~rmRet.allowed /\ rmRet.reason = "cooldown")

C2_Witness ==
    /\ Queried /\ ~state.emergencyStopTriggered /\ state.isInCooldown
    /\ now - state.lastTradeTime < limits.cooldownPeriod
    /\ state.dailyLoss >= limits.maxDailyLoss
    /\ rmRet.reason = "cooldown"

\* cumulative pnl of the first k trades
RECURSIVE CumPnl(_, _)
CumPnl(hist, k) == IF k = 0 THEN 0 ELSE CumPnl(hist, k - 1) + hist[k].pnl

\* highest cumulative pnl reached within the first k trades, starting at 0
PeakPnl(hist, k) == Max({CumPnl(hist, j) : j \in 0..k})

MaxDrawdownOf(hist) ==
    Max({PeakPnl(hist, k) - CumPnl(hist, k) : k \in 0..Len(hist)})

\* C3: currentDrawdown is the largest, over the prefixes of the recorded
\* pnl sequence, of the peak cumulative pnl so far minus the cumulative pnl.
C3_DrawdownIsMaxOverPrefixes ==
    state.currentDrawdown = MaxDrawdownOf(tradeHistory)

C3_Witness ==
    /\ Len(tradeHistory) >= 3
    /\ state.currentDrawdown >= 2
    /\ PeakPnl(tradeHistory, Len(tradeHistory))
         - CumPnl(tradeHistory, Len(tradeHistory)) < state.currentDrawdown

\* C4: with emergencyStopLoss > 0 and resetEmergencyStop never called, the
\* latch is set exactly when currentDrawdown >= emergencyStopLoss.
C4_LatchIffDrawdown ==
    limits.emergencyStopLoss > 0 =>
        (state.emergencyStopTriggered
            <=> state.currentDrawdown >= limits.emergencyStopLoss)

C4_Witness ==
    /\ limits.emergencyStopLoss > 0
    /\ state.emergencyStopTriggered
    /\ state.currentDrawdown = limits.emergencyStopLoss
    /\ rmRet.op = "resetDailyStats"

\* C5: once set, the latch stays set and canOpenPosition answers with the
\* emergency-stop reason in every step that is not resetEmergencyStop.
C5_LatchHolds ==
    [][ (state.emergencyStopTriggered /\ rmRet'.op # "resetEmergencyStop")
        => /\ state'.emergencyStopTriggered
           /\ (rmRet'.op = "canOpenPosition"
                 => ~rmRet'.allowed /\ rmRet'.reason = "emergency") ]_vars

C5_Witness ==
    /\ Queried /\ state.emergencyStopTriggered
    /\ rmRet.reason = "emergency"
    /\ state.dailyLoss = 0 /\ Len(tradeHistory) > 0
    /\ now - state.lastTradeTime >= limits.cooldownPeriod

LossStreakOfThree ==
    /\ limits.maxConsecutiveLosses = 3
    /\ state.consecutiveLosses >= 3
    /\ ~state.emergencyStopTriggered

\* C6 as stated: after three losses in a row canOpenPosition names the loss
\* streak, not the cooldown.
C6_Original ==
    (Queried /\ LossStreakOfThree)
    => (~rmRet.allowed /\ rmRet.reason = "consecutive")

\* C6 amended: after three losses in a row canOpenPosition rejects; the
\* reason is the cooldown while less than cooldownPeriod has elapsed since
\* the last trade, after that the size reason for an oversized request and
\* the loss-streak reason otherwise.
C6_StreakRejects ==
    (Queried /\ LossStreakOfThree)
    => /\ ~rmRet.allowed
       /\ rmRet.reason =
            IF now - state.lastTradeTime < limits.cooldownPeriod THEN "cooldown"
            ELSE IF rmRet.arg > limits.maxPositionSize THEN "size"
            ELSE "consecutive"

C6_Witness ==
    /\ Queried /\ LossStreakOfThree
    /\ now = state.lastTradeTime
    /\ rmRet.arg <= limits.maxPositionSize
    /\ rmRet.reason = "cooldown"

\* C7 as stated: after a recordTrade that leaves the streak at its limit,
\* every request is rejected until cooldownPeriod has elapsed since it.
C7_Original ==
    /\ (rmRet.op = "recordTrade"
          /\ state.consecutiveLosses >= limits.maxConsecutiveLosses)
       => state.isInCooldown
    /\ (Queried /\ cooldownOpened.at >= 0
          /\ now - cooldownOpened.at < limits.cooldownPeriod)
       => ~rmRet.allowed

\* C7 amended: a recordTrade that leaves the streak at its limit sets
\* isInCooldown in the same call, and every request is then rejected until
\* cooldownPeriod has elapsed since that trade or resetDailyStats is called.
C7_CooldownOpens ==
    /\ (rmRet.op = "recordTrade"
          /\ state.consecutiveLosses >= limits.maxConsecutiveLosses)
       => state.isInCooldown
    /\ (Queried /\ cooldownOpened.at >= 0 /\ ~cooldownOpened.resetAfter
          /\ now - cooldownOpened.at < limits.cooldownPeriod)
       => ~rmRet.allowed

C7_Witness ==
    /\ Queried /\ cooldownOpened.at >= 0 /\ ~cooldownOpened.resetAfter
    /\ now - cooldownOpened.at < limits.cooldownPeriod
    /\ now > cooldownOpened.at
    /\ ~state.emergencyStopTriggered
    /\ rmRet.arg <= limits.maxPositionSize
    /\ ~rmRet.allowed

\* C8: recordTrade(pnl) appends one entry, stamps lastTradeTime with the
\* current time, and on a loss adds 1 to consecutiveLosses and |pnl| to
\* dailyLoss, otherwise zeroes consecutiveLosses and keeps dailyLoss.
C8_RecordTradeEffect ==
    [][ rmRet'.op = "recordTrade" =>
          /\ Len(tradeHistory') = Len(tradeHistory) + 1
          /\ SubSeq(tradeHistory', 1, Len(tradeHistory)) = tradeHistory
          /\ tradeHistory'[Len(tradeHistory')].pnl = rmRet'.arg
          /\ state'.lastTradeTime = now
          /\ IF rmRet'.arg < 0
               THEN /\ state'.consecutiveLosses = state.consecutiveLosses + 1
                    /\ state'.dailyLoss = state.dailyLoss + Abs(rmRet'.arg)
               ELSE /\ state'.consecutiveLosses = 0
                    /\ state'.dailyLoss = state.dailyLoss ]_vars

C8_Witness ==
    /\ rmRet.op = "recordTrade" /\ rmRet.arg = 0
    /\ state.consecutiveLosses = 0
    /\ state.dailyLoss > 0
    /\ state.lastTradeTime = now
    /\ Len(tradeHistory) >= 2

(***************************************************************************)
(* Properties of VolumeStrategyOptimizer                                   *)
(***************************************************************************)
\* the volume recorded in the closed window of VolumeWindow ms ending at t
WindowVolume(t) ==
    SumVolume(SelectSeq(volHistory,
                        LAMBDA tr : t - VolumeWindow <= tr.timestamp
                                      /\ tr.timestamp <= t))

\* the instants up to now at which the content of such a window changes
WindowEnds ==
    {now} \cup {volHistory[i].timestamp : i \in 1..Len(volHistory)}
          \cup {t \in {volHistory[i].timestamp + VolumeWindow
                         : i \in 1..Len(volHistory)} : t <= now}

\* C9: when every recorded trade was admitted by canExecuteTrade just
\* before, no trailing 60-second window holds more than maxVolumePerMinute.
C9_WindowVolumeCapped ==
    \A t \in WindowEnds : WindowVolume(t) <= config.maxVolumePerMinute

C9_Witness ==
    /\ Len(volHistory) = 3
    /\ voRet.op = "recordTrade"
    /\ WindowVolume(now) = config.maxVolumePerMinute
    /\ volHistory[1].timestamp < now - VolumeWindow
    /\ volHistory[2].timestamp = now - VolumeWindow
    /\ SumVolume(volHistory) > config.maxVolumePerMinute

\* C10: a rejection for volume suggests exactly the volume left under the
\* cap: suggestedVolume plus the volume of the last 60 seconds is the cap.
C10_SuggestionFillsCap ==
    (voRet.op = "canExecuteTrade" /\ ~voRet.allowed /\ voRet.reason = "volume")
    => voRet.suggestedVolume + WindowVolume(now) = config.maxVolumePerMinute

C20_QuickCloseIff ==
    [][ voRet'.op = "shouldQuickClose" =>
          /\ voRet'.result <=>
                \/ Abs(voRet'.arg) >= config.quickCloseThreshold
                \/ voRet'.holdTime >= config.maxPositionHoldTime
                \/ voRet'.arg <= -config.maxDrawdownPerTrade
          /\ UNCHANGED <<config, volHistory, volLastTradeTime>> ]_vars

C20_Witness ==
    /\ voRet.op = "shouldQuickClose" /\ voRet.result
    /\ Abs(voRet.arg) < config.quickCloseThreshold
    /\ voRet.holdTime < config.maxPositionHoldTime
    /\ voRet.arg <= -config.maxDrawdownPerTrade
    /\ Len(volHistory) > 0

(***************************************************************************)
(* Properties of CloseStrategyManager                                      *)
(***************************************************************************)
Calculated == csRet.op = "calculateClosePrice"

\* the fees of opening as maker and closing as taker, for the entry notional
OpenAndCloseFees(entryPrice, amount) ==
    entryPrice * amount * LIMIT_MAKER + entryPrice * amount * MARKET_TAKER

\* gross profit against the entry price of closing amount at price
GrossProfitAt(side, entryPrice, amount, price) ==
    IF side = "SELL" THEN (price - entryPrice * RateScale) * amount
                     ELSE (entryPrice * RateScale - price) * amount

\* the current call runs into the timeout fallback
FallbackTaken ==
    /\ isActive
    /\ now - orderStartTime > closeConfig.timeoutMs
    /\ closeConfig.fallbackToOriginal

\* C15: the close price is never above currentBid for a SELL close and never
\* below currentAsk for a BUY close, idle, active or timed out.
C15_PriceWithinBook ==
    Calculated =>
        /\ csRet.side = "SELL" => csRet.price <= csRet.bid * RateScale
        /\ csRet.side = "BUY" => csRet.price >= csRet.ask * RateScale

C15_Witness ==
    /\ Calculated /\ isActive
    /\ now - orderStartTime > closeConfig.timeoutMs
    /\ ~closeConfig.fallbackToOriginal
    /\ csRet.side = "SELL"
    /\ csRet.price = csRet.bid * RateScale
    /\ csRet.price < csRet.entryPrice * RateScale + csRet.minProfitRequired \div csRet.amount

\* C16 as stated: every calculateClosePrice call returns a minProfitRequired
\* of at least the open fee plus the close fee.
C16_Original ==
    Calculated =>
        csRet.minProfitRequired >= OpenAndCloseFees(csRet.entryPrice, csRet.amount)

\* C16 amended: every calculateClosePrice call that does not take the
\* timeout fallback (strategy profit_cover) returns a minProfitRequired of at
\* least the open fee plus the close fee; the fallback returns 0.
C16_RequiredCoversFees ==
    Calculated =>
        IF csRet.strategy = "profit_cover"
          THEN csRet.minProfitRequired
                  >= OpenAndCloseFees(csRet.entryPrice, csRet.amount)
          ELSE csRet.minProfitRequired = 0

C16_Witness ==
    /\ Calculated /\ csRet.strategy = "profit_cover"
    /\ closeConfig.minProfitMargin = 0
    /\ csRet.amount = 2
    /\ csRet.minProfitRequired = OpenAndCloseFees(csRet.entryPrice, csRet.amount)

\* C17 as stated: a profit_cover price yields a gross profit of at least
\* minProfitRequired.
C17_Original ==
    (Calculated /\ csRet.strategy = "profit_cover")
    => GrossProfitAt(csRet.side, csRet.entryPrice, csRet.amount, csRet.price)
          >= csRet.minProfitRequired

\* the top of book is at least as good as the fee-covering target price
TargetWithinBook ==
    IF csRet.side = "SELL"
      THEN csRet.entryPrice * RateScale + csRet.minProfitRequired \div csRet.amount
              <= csRet.bid * RateScale
      ELSE csRet.entryPrice * RateScale - csRet.minProfitRequired \div csRet.amount
              >= csRet.ask * RateScale

\* C17 amended: a profit_cover price yields a gross profit of at least
\* minProfitRequired when the current best price reaches the fee-covering
\* target; otherwise the price is the current best price and the gross
\* profit stays below minProfitRequired.
C17_ProfitWhenTargetInBook ==
    (Calculated /\ csRet.strategy = "profit_cover")
    => IF TargetWithinBook
         THEN GrossProfitAt(csRet.side, csRet.entryPrice, csRet.amount, csRet.price)
                 >= csRet.minProfitRequired
         ELSE /\ csRet.price = (IF csRet.side = "SELL" THEN csRet.bid ELSE csRet.ask)
                                  * RateScale
              /\ GrossProfitAt(csRet.side, csRet.entryPrice, csRet.amount, csRet.price)
                    < csRet.minProfitRequired

C17_Witness ==
    /\ Calculated /\ csRet.strategy = "profit_cover"
    /\ TargetWithinBook
    /\ csRet.side = "BUY" /\ csRet.amount = 2
    /\ csRet.price > csRet.ask * RateScale
    /\ GrossProfitAt(csRet.side, csRet.entryPrice, csRet.amount, csRet.price)
          = csRet.minProfitRequired

\* C18: active with fallbackToOriginal, a call later than timeoutMs after the
\* start returns the current best price, minProfitRequired 0, isTimeout and
\* strategy original; a call up to timeoutMs after it returns the
\* fee-covering computation with isTimeout false.
C18_FallbackAfterTimeout ==
    (Calculated /\ isActive /\ closeConfig.fallbackToOriginal)
    => IF now - orderStartTime > closeConfig.timeoutMs
         THEN /\ csRet.price = (IF csRet.side = "SELL" THEN csRet.bid ELSE csRet.ask)
                                  * RateScale
              /\ csRet.minProfitRequired = 0
              /\ csRet.isTimeout
              /\ csRet.strategy = "original"
         ELSE /\ ~csRet.isTimeout
              /\ csRet.strategy = "profit_cover"
              /\ csRet.minProfitRequired =
                    csRet.entryPrice * csRet.amount
                       * (LIMIT_MAKER + MARKET_TAKER + closeConfig.minProfitMargin)
              /\ IF TargetWithinBook
                   THEN GrossProfitAt(csRet.side, csRet.entryPrice, csRet.amount,
                                      csRet.price) = csRet.minProfitRequired
                   ELSE csRet.price =
                          (IF csRet.side = "SELL" THEN csRet.bid ELSE csRet.ask)
                             * RateScale

C18_Witness ==
    /\ Calculated /\ isActive /\ closeConfig.fallbackToOriginal
    /\ now - orderStartTime > closeConfig.timeoutMs
    /\ orderStartTime > Min(InitialNows)
    /\ csRet.strategy = "original"
    /\ csRet.side = "BUY" /\ csRet.price = csRet.ask * RateScale

\* C19: outside the timeout fallback, shouldUseMarketClose is true exactly
\* when the gross profit at the current best price is below the required
\* profit (fees plus margin on the entry notional).
C19_MarketCloseIffUnprofitable ==
    (csRet.op = "shouldUseMarketClose" /\ ~FallbackTaken)
    => (csRet.result <=>
          GrossProfitAt(csRet.side, csRet.entryPrice, csRet.amount,
                        (IF csRet.side = "SELL" THEN csRet.bid ELSE csRet.ask)
                           * RateScale)
            < csRet.entryPrice * csRet.amount
                 * (LIMIT_MAKER + MARKET_TAKER + closeConfig.minProfitMargin))

\* the scenario: entry 100, amount 1, margin 0.0001, SELL, bid 100.02 gives
\* minProfitRequired 0.055 (11 price units), close price 100.02, and true
C19_Witness ==
    /\ csRet.op = "shouldUseMarketClose" /\ ~FallbackTaken
    /\ closeConfig.minProfitMargin = 2
    /\ csRet.entryPrice = 20000 /\ csRet.amount = 1 /\ csRet.side = "SELL"
    /\ csRet.bid = 20004
    /\ csRet.closeInfo.minProfitRequired = 11 * RateScale
    /\ csRet.closeInfo.price = 20004 * RateScale
    /\ csRet.result

(***************************************************************************)
(* Properties of safeFetch                                                 *)
(***************************************************************************)
SfCalled == sf.pc # "notCalled"

\* an outcome after which the loop goes round again
Retryable(o) ==
    \/ o.kind = "error"
    \/ o.kind = "response" /\ ~ok(o.status) /\ o.status \in sf.retryStatuses

\* C12: at most maxRetries + 1 fetch calls, one counter for both kinds of
\* retry; the response returned is the first that is ok or not retryable,
\* or the last one once maxRetries retries are used up, and an error is
\* rethrown only then.
C12_BoundedAttempts ==
    SfCalled =>
        /\ sf.fetchCalls <= sf.maxRetries + 1
        /\ sf.attempt <= sf.maxRetries
        /\ sf.pc \in {"returned", "thrown"} =>
              /\ Len(sf.outcomes) = sf.fetchCalls
              /\ sf.result = sf.outcomes[Len(sf.outcomes)]
              /\ \A i \in 1..(Len(sf.outcomes) - 1) : Retryable(sf.outcomes[i])
        /\ sf.pc = "returned" =>
              /\ sf.result.kind = "response"
              /\ \/ ~Retryable(sf.result)
                 \/ sf.fetchCalls = sf.maxRetries + 1
        /\ sf.pc = "thrown" =>
              /\ sf.result.kind = "error"
              /\ sf.fetchCalls = sf.maxRetries + 1

\* three retries used up on an error and two statuses, the last response returned
C12_Witness ==
    /\ sf.pc = "returned"
    /\ sf.maxRetries = 3 /\ sf.fetchCalls = 4
    /\ sf.result = [kind |-> "response", status |-> 503]
    /\ \E i \in 1..3 : sf.outcomes[i].kind = "error"
    /\ \E i \in 1..3 : sf.outcomes[i].kind = "response"

\* C13: with a timeout configured, an attempt that is in flight once
\* timeoutMs has elapsed since the call, a retry included, has been aborted.
C13_AttemptAbortedAtTimeout ==
    (SfCalled /\ sf.timeoutMs # 0 /\ sf.pc = "fetching" /\ sf.clock >= sf.timeoutMs)
    => sf.aborted

\* C14: the delay before retry n (n = 0 for the first) is
\* min(maxDelayMs, floor(baseDelayMs * 2^n + jitter)) with 0 <= jitter <
\* baseDelayMs, hence at most maxDelayMs and at least
\* min(maxDelayMs, baseDelayMs * 2^n).
C14_BackoffDelay ==
    (SfCalled /\ sf.pc = "sleeping") =>
        LET n == sf.attempt - 1
        IN /\ 0 <= sf.jitter /\ sf.jitter < sf.baseDelay * JitterScale
           /\ sf.delay = Min({sf.maxDelay,
                              (sf.baseDelay * 2^n * JitterScale + sf.jitter)
                                 \div JitterScale})
           /\ sf.delay <= sf.maxDelay
           /\ sf.delay >= Min({sf.maxDelay, sf.baseDelay * 2^n})
           /\ sf.wake - sf.delay <= sf.clock
           /\ sf.clock <= sf.wake

\* the third retry, whose delay is cut to maxDelayMs, after two that were not
C14_Witness ==
    /\ sf.pc = "sleeping" /\ sf.attempt = 3
    /\ sf.delay = sf.maxDelay
    /\ sf.baseDelay * 2^2 > sf.maxDelay
    /\ sf.outcomes[3] = [kind |-> "error", name |-> "TypeError"]
    /\ sf.clock = sf.wake

(***************************************************************************)
(* Properties of the RiskManager queries                                   *)
(***************************************************************************)
Suggested == rmRet.op = "getSuggestedTradeSize"

\* the product of the three factors, floored at 0.1, in 1/MultiplierScale
RiskFactor ==
    LET f1 == IF 2 * state.currentDrawdown > limits.maxDrawdown THEN 5 ELSE 10
        f2 == IF 2 * state.consecutiveLosses > limits.maxConsecutiveLosses
                THEN 3 ELSE 10
        f3 == IF 2 * state.dailyLoss > limits.maxDailyLoss THEN 5 ELSE 10
    IN Max({100, f1 * f2 * f3})

RiskFactors == {1000, 500, 300, 250, 150, 100}

\* C21 as stated: the suggestion is base x m, between 10% and 100% of base.
C21_Original ==
    Suggested =>
        /\ RiskFactor \in RiskFactors
        /\ rmRet.result = rmRet.arg * RiskFactor
        /\ rmRet.result * 10 >= rmRet.arg * MultiplierScale
        /\ rmRet.result <= rmRet.arg * MultiplierScale

\* C21 amended: the suggestion is max(0.0001, base x m) with m one of 1,
\* 0.5, 0.3, 0.25, 0.15, 0.1; it is base x m, between 10% and 100% of base,
\* whenever base x m is at least 0.0001.
C21_SuggestionScaled ==
    Suggested =>
        /\ RiskFactor \in RiskFactors
        /\ rmRet.result = Max({MinSuggestedSize * MultiplierScale,
                               rmRet.arg * RiskFactor})
        /\ rmRet.arg * RiskFactor >= MinSuggestedSize * MultiplierScale
              => /\ rmRet.result = rmRet.arg * RiskFactor
                 /\ rmRet.result * 10 >= rmRet.arg * MultiplierScale
                 /\ rmRet.result <= rmRet.arg * MultiplierScale

\* all three factors apply and the floor of 0.1 replaces 0.075
C21_Witness ==
    /\ Suggested
    /\ 2 * state.currentDrawdown > limits.maxDrawdown
    /\ 2 * state.consecutiveLosses > limits.maxConsecutiveLosses
    /\ 2 * state.dailyLoss > limits.maxDailyLoss
    /\ rmRet.arg = 100
    /\ rmRet.result = 100 * 100

RiskQueryOps ==
    {"canOpenPosition", "getSuggestedTradeSize", "getRiskAdvice", "getRiskState"}

RiskMutatorOps == {"recordTrade", "resetDailyStats", "resetEmergencyStop"}

\* C27: canOpenPosition, getSuggestedTradeSize, getRiskAdvice and
\* getRiskState leave RiskState and the trade history as they are, a write
\* to what getRiskState returned does not reach the manager, and RiskState
\* changes only in recordTrade, resetDailyStats and resetEmergencyStop.
C27_StateChangesOnlyInMutators ==
    [][ /\ rmRet'.op \in RiskQueryOps \cup {"callerMutation"}
            => UNCHANGED <<state, tradeHistory>>
        /\ state' # state => rmRet'.op \in RiskMutatorOps
        /\ tradeHistory' # tradeHistory => rmRet'.op = "recordTrade" ]_vars

\* the caller has written to the returned copy and the manager's state differs
C27_Witness ==
    /\ rmRet.op = "callerMutation"
    /\ rmRet.result.value # state
    /\ rmRet.result.value.dailyLoss = state.dailyLoss + 1
    /\ state.dailyLoss > 0
    /\ Len(tradeHistory) > 0

\* C28: no recordTrade lowers dailyLoss or currentDrawdown, so between
\* resets both only grow from one recordTrade to the next.
C28_RiskOnlyGrows ==
    [][ rmRet'.op = "recordTrade" =>
          /\ state'.dailyLoss >= state.dailyLoss
          /\ state'.currentDrawdown >= state.currentDrawdown ]_vars

\* a profit recorded after losses: both figures stay where they were
C28_Witness ==
    /\ rmRet.op = "recordTrade" /\ rmRet.arg > 0
    /\ Len(tradeHistory) >= 2
    /\ tradeHistory[Len(tradeHistory) - 1].pnl < 0
    /\ state.currentDrawdown > 0
    /\ state.dailyLoss > 0

(***************************************************************************)
(* Properties of the fee schedule and of TradeTracker                      *)
(***************************************************************************)
\* C25: the rate is the maker rate 0.0001 only for a LIMIT order filled as
\* maker and the taker rate 0.00035 otherwise, MARKET, STOP_MARKET,
\* TRAILING_STOP_MARKET and unknown types included; the fee is notional
\* times that rate.
C25_MakerOnlyLimitMaker ==
    /\ ttRet.op = "getFeeRate" =>
          ttRet.result = IF ttRet.orderType = "LIMIT" /\ ttRet.isMaker THEN 2 ELSE 7
    /\ ttRet.op = "calculateOrderFee" =>
          /\ ttRet.result.feeRate =
                IF ttRet.result.orderType = "LIMIT" /\ ttRet.result.isMaker
                  THEN 2 ELSE 7
          /\ ttRet.result.feeAmount = ttRet.result.notional * ttRet.result.feeRate

\* a stop order flagged as maker still pays the taker rate
C25_Witness ==
    /\ ttRet.op = "calculateOrderFee"
    /\ ttRet.result.orderType = "STOP_MARKET" /\ ttRet.result.isMaker
    /\ ttRet.result.notional = 8
    /\ ttRet.result.feeAmount = 56

TrackerAdds == {"addTrade", "addTradeFromOrderUpdate"}

TimestampsOrdered(hist) ==
    \A i \in 1..(Len(hist) - 1) : hist[i].timestamp <= hist[i + 1].timestamp

\* C22: but for clear(), every tracker operation leaves the list as it was
\* or, for the two adds, puts exactly one record after the unchanged earlier
\* ones; timestamps never decrease along the list; and the arrays handed out
\* are copies: the caller editing one leaves the list as it was.
C22_AppendOnly ==
    [][ /\ ttRet'.op \in TrackerAdds =>
              /\ Len(trades') = Len(trades) + 1
              /\ SubSeq(trades', 1, Len(trades)) = trades
        /\ ttRet'.op \notin TrackerAdds \cup {"clear", "callerWritesRecord"}
              => trades' = trades
        /\ TimestampsOrdered(trades') ]_vars

\* the caller has emptied the array it got and the list still has two
\* records of different times
C22_Witness ==
    /\ ttRet.op = "callerEditsArray"
    /\ ttRet.result.items = <<>>
    /\ Len(trades) = 2
    /\ trades[1].timestamp < trades[2].timestamp

\* the fee the schedule gives for the order type and role of a record
ScheduleFee(rec) ==
    rec.notional * (IF rec.orderType = "LIMIT" /\ rec.isMaker THEN 2 ELSE 7)

LastTrade == trades[Len(trades)]

\* the number the commission field of the update spells, 0 for none
ReportedCommission == IF ttRet.arg.commission = <<>> THEN 0 ELSE ttRet.arg.commission[1]

\* C23: addTradeFromOrderUpdate records a reported commission > 0 as the
\* fee, with feeRate commission / notional (0 when notional is 0), and the
\* schedule fee for the order type and role when no positive commission is
\* reported; addTrade always records the schedule fee.
C23_CommissionBeforeSchedule ==
    /\ ttRet.op = "addTradeFromOrderUpdate" =>
          IF ReportedCommission > 0
            THEN /\ LastTrade.fee = ReportedCommission
                 /\ LastTrade.feeRate * LastTrade.notional =
                       (IF LastTrade.notional = 0 THEN 0 ELSE ReportedCommission)
                 /\ LastTrade.notional = 0 => LastTrade.feeRate = 0
            ELSE /\ LastTrade.fee = ScheduleFee(LastTrade)
                 /\ LastTrade.feeRate * LastTrade.notional = LastTrade.fee
                 /\ LastTrade.feeRate \in {2, 7}
                 /\ LastTrade.orderType =
                       (IF ttRet.arg.type = <<>> THEN "MARKET" ELSE ttRet.arg.type[1])
                 /\ LastTrade.isMaker =
                       (IF ttRet.arg.isMaker = <<>> THEN ttRet.arg.type = <<"LIMIT">>
                        ELSE ttRet.arg.isMaker[1])
    /\ ttRet.op = "addTrade" =>
          /\ LastTrade.fee = ScheduleFee(LastTrade)
          /\ LastTrade.feeRate * LastTrade.notional = LastTrade.fee

\* a reported commission of 8 on a notional of 4 beside a schedule fee
C23_Witness ==
    /\ ttRet.op = "addTradeFromOrderUpdate"
    /\ ReportedCommission = 8
    /\ LastTrade.fee = 8 /\ LastTrade.notional = 4 /\ LastTrade.feeRate = 2
    /\ Len(trades) = 2
    /\ trades[1].fee = ScheduleFee(trades[1])

(***************************************************************************)
(* Properties of the PnL functions                                         *)
(***************************************************************************)
\* C24: for every position, top of book (a missing or non-finite bid or ask
\* included) and total fees, computeNetPnl and computePositionPnl return
\* computeGrossPnl minus the total fees.
C24_NetIsGrossMinusFees ==
    pnlRet.op \in {"computeNetPnl", "computePositionPnl"} =>
        pnlRet.result =
            computeGrossPnl(pnlRet.position, pnlRet.bestBid, pnlRet.bestAsk)
               - pnlRet.totalFees

(***************************************************************************)
(* The close strategy as a state machine                                   *)
(***************************************************************************)
\* the last call was a computation that says whether the strategy timed out
Computes == csRet.op \in {"calculateClosePrice", "getStrategyStatus"}

\* C26: startCloseStrategy makes the manager Active with startTime = now; a
\* timeout is reported only while Active and more than timeoutMs after the
\* most recent start; and once a computation has reported it, every later
\* computation reports it until startCloseStrategy or stopCloseStrategy.
C26_TimeoutStateMachine ==
    /\ csRet.op = "startCloseStrategy" => (isActive /\ orderStartTime = now)
    /\ csRet.op = "stopCloseStrategy" => ~isActive
    /\ (Computes /\ csRet.isTimeout)
          => (isActive /\ now - orderStartTime > closeConfig.timeoutMs)
    /\ (Computes /\ timeoutReported) => csRet.isTimeout

(***************************************************************************)
(* Properties of the apps                                                  *)
(***************************************************************************)
\* C29: once the app is unmounted no engine holds a handler of it, every
\* engine that was started is stopped, and no update is delivered to it.
C29_UnmountUnsubscribes ==
    app.phase = "unmounted" =>
        /\ \A i \in 1..Len(app.engines) :
              /\ app.engines[i].handlers = {}
              /\ ~app.engines[i].running
        /\ ~app.deliveredAfterUnmount

\* no JSON entry, indexed pair or single pair has both a key and a secret
NoUsableAccount(env) ==
    /\ env.json.kind = "array" =>
          \A i \in 1..Len(env.json.items) :
              \/ Coalesce(env.json.items[i].apiKey, env.json.items[i].key) = ""
              \/ Coalesce(env.json.items[i].apiSecret, env.json.items[i].secret) = ""
    /\ \A i \in 1..IndexedSlots :
          env.indexed[i].key = Unset \/ env.indexed[i].secret = Unset
    /\ env.single.key = Unset \/ env.single.secret = Unset

\* C30: with no usable account the effect puts the app in its error state
\* and no engine is created, subscribed or started, then or later.
C30_NoAccountsIsFatal ==
    (app.phase \in {"mounted", "unmounted"} /\ NoUsableAccount(app.env))
    => /\ app.error
       /\ app.engines = <<>>
       /\ app.enginesRef = {}
       /\ app.snapshots = {}
       /\ ~app.hasCleanup
       /\ app.delivered = 0

\* an index pair with a key and no secret, a single pair with a key only
C30_Witness ==
    /\ app.phase = "unmounted"
    /\ app.env.json.kind = "invalid"
    /\ app.env.indexed[3].key # Unset
    /\ app.error
    /\ app.engines = <<>>

(***************************************************************************)
(* Properties of the trade statistics                                      *)
(***************************************************************************)
Stats == ttRet.result

\* C31: getStats reports grossPnl 0, netPnl minus the fees of the recorded
\* trades, and winRate 100 with a trade recorded and 0 with none.
C31_PlaceholderPnl ==
    ttRet.op = "getStats" =>
        /\ Stats.grossPnl = 0
        /\ Stats.netPnl = 0 - SumFee(trades, DOMAIN trades)
        /\ Stats.netPnl = 0 - Stats.totalFees
        /\ Stats.winRate = IF Len(trades) > 0 THEN 100 ELSE 0

\* a sell above nothing bought and a buy, with fees
C31_Witness ==
    /\ ttRet.op = "getStats"
    /\ Len(trades) = 2
    /\ trades[1].side = "SELL" /\ trades[1].notional > 0
    /\ trades[2].side = "BUY" /\ trades[2].notional = 0
    /\ Stats.netPnl < 0

RECURSIVE SumValues(_, _)
SumValues(f, keys) ==
    IF keys = {} THEN 0
    ELSE LET k == CHOOSE k \in keys : TRUE
         IN f[k] + SumValues(f, keys \ {k})

\* every record with a fee is a LIMIT or a MARKET order
FeesOnlyLimitMarket ==
    \A i \in DOMAIN trades :
        trades[i].fee # 0 => trades[i].orderType \in {"LIMIT", "MARKET"}

\* C40: totalTrades counts the records, maker and taker fees add up to
\* totalFees, so do the feeBreakdown values, and limit plus market fees are at
\* most totalFees, equal exactly when every record with a fee is LIMIT or MARKET.
C40_StatsAddUp ==
    ttRet.op = "getStats" =>
        /\ Stats.totalTrades = Len(trades)
        /\ Stats.makerFees + Stats.takerFees = Stats.totalFees
        /\ SumValues(Stats.feeBreakdown, DOMAIN Stats.feeBreakdown) = Stats.totalFees
        /\ Stats.limitOrderFees + Stats.marketOrderFees <= Stats.totalFees
        /\ (Stats.limitOrderFees + Stats.marketOrderFees = Stats.totalFees)
              <=> FeesOnlyLimitMarket

\* a STOP_MARKET record with a fee next to a LIMIT record with one
C40_Witness ==
    /\ ttRet.op = "getStats"
    /\ Len(trades) = 2
    /\ trades[1].orderType = "STOP_MARKET" /\ trades[1].fee > 0
    /\ trades[2].orderType = "LIMIT" /\ trades[2].fee > 0
    /\ Stats.limitOrderFees + Stats.marketOrderFees < Stats.totalFees

(***************************************************************************)
(* Persistence of the risk gates                                           *)
(***************************************************************************)
StreakAtLimit == state.consecutiveLosses >= limits.maxConsecutiveLosses

\* C32: with the loss streak at its limit canOpenPosition rejects whatever
\* the size and the time elapsed, and the streak leaves its limit only in a
\* recordTrade with pnl >= 0 or in resetDailyStats.
C32_StreakBlocksUntilWinOrReset ==
    /\ [](Queried /\ StreakAtLimit => ~rmRet.allowed)
    /\ [][ (StreakAtLimit /\ ~StreakAtLimit')
           => \/ rmRet'.op = "recordTrade" /\ rmRet'.arg >= 0
              \/ rmRet'.op = "resetDailyStats" ]_vars

\* the cooldown period is over and the streak still rejects
C32_Witness ==
    /\ Queried /\ StreakAtLimit
    /\ state.isInCooldown
    /\ now - state.lastTradeTime >= limits.cooldownPeriod
    /\ ~state.emergencyStopTriggered
    /\ rmRet.arg <= limits.maxPositionSize
    /\ ~rmRet.allowed /\ rmRet.reason = "consecutive"

\* less than cooldownPeriod since the last recorded trade
SinceLastTradeInCooldown ==
    /\ Len(tradeHistory) > 0
    /\ now - tradeHistory[Len(tradeHistory)].timestamp < limits.cooldownPeriod

\* isInCooldown is cleared in resetDailyStats only
CooldownClearedOnlyByReset ==
    (state.isInCooldown /\ ~state'.isInCooldown) => rmRet'.op = "resetDailyStats"

\* a recordTrade made while isInCooldown is set restarts the window
RecordRestartsWindow ==
    (state.isInCooldown /\ rmRet'.op = "recordTrade")
    => (state'.isInCooldown /\ state'.lastTradeTime = now')

\* C33 as stated: while isInCooldown is set canOpenPosition answers with the
\* cooldown reason for cooldownPeriod after each recorded trade.
C33_Original ==
    /\ []((Queried /\ state.isInCooldown /\ SinceLastTradeInCooldown)
            => (~rmRet.allowed /\ rmRet.reason = "cooldown"))
    /\ [][CooldownClearedOnlyByReset /\ RecordRestartsWindow]_vars

\* C33 amended: isInCooldown is cleared by resetDailyStats only, a
\* recordTrade of any pnl made while it is set restarts the window, and with
\* the emergency latch clear canOpenPosition answers with the cooldown reason
\* for cooldownPeriod after each recorded trade, also with the streak at 0.
C33_CooldownSticks ==
    /\ []((Queried /\ state.isInCooldown /\ SinceLastTradeInCooldown
             /\ ~state.emergencyStopTriggered)
            => (~rmRet.allowed /\ rmRet.reason = "cooldown"))
    /\ []((Queried /\ state.isInCooldown /\ SinceLastTradeInCooldown
             /\ state.emergencyStopTriggered)
            => (~rmRet.allowed /\ rmRet.reason = "emergency"))
    /\ [][CooldownClearedOnlyByReset /\ RecordRestartsWindow]_vars

\* the first window is over, a winning trade has opened the next one
C33_Witness ==
    /\ Queried /\ state.isInCooldown /\ SinceLastTradeInCooldown
    /\ ~state.emergencyStopTriggered
    /\ state.consecutiveLosses = 0
    /\ tradeHistory[Len(tradeHistory)].pnl >= 0
    /\ cooldownOpened.at >= 0
    /\ now - cooldownOpened.at >= limits.cooldownPeriod
    /\ rmRet.reason = "cooldown"

\* C34: no step lowers currentDrawdown or removes a recorded trade; with
\* currentDrawdown at maxDrawdown canOpenPosition rejects, and with it at
\* emergencyStopLoss the next recordTrade sets the latch whatever its pnl.
C34_DrawdownNeverForgotten ==
    /\ [](Queried /\ state.currentDrawdown >= limits.maxDrawdown => ~rmRet.allowed)
    /\ [][ /\ state'.currentDrawdown >= state.currentDrawdown
           /\ Len(tradeHistory') >= Len(tradeHistory)
           /\ SubSeq(tradeHistory', 1, Len(tradeHistory)) = tradeHistory
           /\ (rmRet'.op = "recordTrade"
                 /\ state.currentDrawdown >= limits.emergencyStopLoss)
              => state'.emergencyStopTriggered ]_vars

\* both resets done: only the drawdown gate is left to reject
C34_Witness ==
    /\ Queried
    /\ state.dailyLoss = 0 /\ state.consecutiveLosses = 0
    /\ ~state.isInCooldown /\ ~state.emergencyStopTriggered
    /\ state.currentDrawdown >= limits.emergencyStopLoss
    /\ state.currentDrawdown >= limits.maxDrawdown
    /\ rmRet.arg <= limits.maxPositionSize
    /\ ~rmRet.allowed /\ rmRet.reason = "drawdown"

(***************************************************************************)
(* Admission and reporting of the one-minute volume                        *)
(***************************************************************************)
\* C38: canExecuteTrade changes neither the trade history nor lastTradeTime
\* nor the configuration, whatever it answers.
C38_AdmissionReservesNothing ==
    [][ voRet'.op = "canExecuteTrade"
          => UNCHANGED <<volHistory, volLastTradeTime, config>> ]_vars

\* two trades, each admitted before either was recorded, recorded at the
\* same instant and together above the cap
C38_Witness ==
    /\ voRet.op = "recordTrade"
    /\ "after" \in DOMAIN voRet
    /\ Len(volHistory) >= 2
    /\ volHistory[Len(volHistory)].timestamp
         - volHistory[Len(volHistory) - 1].timestamp < config.minTradeInterval
    /\ WindowVolume(now) > config.maxVolumePerMinute

\* C39: the one-minute volume canExecuteTrade admits against is the
\* volumePerMinute getVolumeMetrics reports, at every instant.
C39_AdmissionVolumeIsReported ==
    getRecentVolume(volHistory, now, VolumeWindow) = volumePerMinute(volHistory, now)

(***************************************************************************)
(* One signal and one timer per safeFetch call                             *)
(***************************************************************************)
\* the outcomes of the attempts made since the first one that was aborted
RECURSIVE SinceAbort(_)
SinceAbort(outcomes) ==
    IF outcomes = <<>> THEN <<>>
    ELSE IF Head(outcomes) = [kind |-> "error", name |-> "AbortError"]
      THEN outcomes
    ELSE SinceAbort(Tail(outcomes))

\* C35: the signal, once aborted, stays aborted and the timer is never armed
\* again; every attempt from the aborted one on fails with the abort error,
\* the call does not return a response and what it throws is the abort error.
C35_OneSignalOneTimer ==
    /\ [](SfCalled =>
            /\ \A i \in 1..Len(SinceAbort(sf.outcomes)) :
                  SinceAbort(sf.outcomes)[i] = [kind |-> "error", name |-> "AbortError"]
            /\ sf.aborted => sf.pc # "returned"
            /\ (sf.aborted /\ sf.pc = "thrown")
                  => sf.result = [kind |-> "error", name |-> "AbortError"])
    /\ [][ SfCalled => /\ sf.aborted => sf'.aborted
                       /\ ~sf.timerArmed => ~sf'.timerArmed ]_vars

\* the first attempt timed out and the retry failed on the same signal
C35_Witness ==
    /\ SfCalled
    /\ sf.pc = "thrown"
    /\ sf.maxRetries >= 1
    /\ sf.fetchCalls = sf.maxRetries + 1
    /\ Len(sf.outcomes) = sf.fetchCalls
    /\ \A i \in 1..Len(sf.outcomes) :
          sf.outcomes[i] = [kind |-> "error", name |-> "AbortError"]

(***************************************************************************)
(* The timeout flag and the market-close decision                          *)
(***************************************************************************)
\* C36: the isTimeout flag of calculateClosePrice is true exactly when the
\* strategy is active and more than timeoutMs has elapsed since it was
\* started, and is the isTimeout of getStrategyStatus at the same instant.
C36_TimeoutFlagExact ==
    Calculated =>
        /\ csRet.isTimeout <=> (isActive /\ now - orderStartTime > closeConfig.timeoutMs)
        /\ csRet.isTimeout
             = getStrategyStatus(closeConfig, isActive, orderStartTime, now).isTimeout

\* amount times the fee-covering target price
TargetTimesAmount ==
    LET required == csRet.entryPrice * csRet.amount
                      * (LIMIT_MAKER + MARKET_TAKER + closeConfig.minProfitMargin)
    IN IF csRet.side = "SELL"
         THEN csRet.entryPrice * RateScale * csRet.amount + required
         ELSE csRet.entryPrice * RateScale * csRet.amount - required

BestPrice == (IF csRet.side = "SELL" THEN csRet.bid ELSE csRet.ask) * RateScale

\* the best price does not reach the target
BestShortOfTarget ==
    IF csRet.side = "SELL"
      THEN BestPrice * csRet.amount < TargetTimesAmount
      ELSE BestPrice * csRet.amount > TargetTimesAmount

\* C37: outside the timeout fallback shouldUseMarketClose is false exactly
\* when the price of calculateClosePrice is the fee-covering target, and true
\* exactly when that price is the best bid/ask, which is short of the target.
C37_MarketCloseIffClamped ==
    (csRet.op = "shouldUseMarketClose" /\ csRet.closeInfo.strategy = "profit_cover")
    => /\ ~csRet.result <=> csRet.closeInfo.price * csRet.amount = TargetTimesAmount
       /\ csRet.result <=> (csRet.closeInfo.price = BestPrice /\ BestShortOfTarget)

\* timed out without fallback, the bid beyond the target: limit close at the target
C37_Witness ==
    /\ csRet.op = "shouldUseMarketClose"
    /\ csRet.closeInfo.strategy = "profit_cover"
    /\ isActive /\ now - orderStartTime > closeConfig.timeoutMs
    /\ csRet.side = "SELL" /\ csRet.amount = 2
    /\ csRet.closeInfo.price < BestPrice
    /\ ~csRet.result

====
